---- MODULE Spec2Model ----
(***************************************************************************)
(* M25P16 / M25PX16 serial NOR flash driver.                               *)
(*                                                                         *)
(* The model has three layers, as the source has:                          *)
(*   - the storage facade          flash_*      (src/flash_m25p16.c 44-136)*)
(*   - the chip command drivers    m25p16_*     (src/m25p16.c)             *)
(*                                 m25px16_*    (src/flash_m25p16.c 194-)  *)
(*   - the bus primitives SPI_ASSERT / SPI_TRANSMIT / SPI_DEASSERT, which  *)
(*     the source leaves to the integrator; here they drive a recording    *)
(*     transport and a flash device that behaves as the data sheet text    *)
(*     quoted in the source's comments says.                               *)
(* One step of the model is one bus primitive, one call or one return.     *)
(***************************************************************************)
EXTENDS Integers, Sequences, FiniteSets, TLC

(* ------------------------------------------------------------------ *)
(* Program constants                                                  *)
(* ------------------------------------------------------------------ *)
M25P16_PAGE_COUNT == 8192
M25P16_PAGE_BYTE_SIZE == 256
M25P16_SECTOR_COUNT == 32
M25P16_SECTOR_BYTE_SIZE == 65536

M25PX16_PAGE_COUNT == 8192
M25PX16_PAGE_BYTE_SIZE == 256
M25PX16_SECTOR_COUNT == 32
M25PX16_SECTOR_BYTE_SIZE == 65536

\* Command codes of m25p16.c
CMD_WRITE_ENABLE == 6
CMD_WRITE_DISABLE == 4
CMD_READ_IDENTIFICATION == 159
CMD_READ_STATUS_REGISTER == 5
CMD_WRITE_STATUS_REGISTER == 1
CMD_READ_DATA_BYTES == 3
CMD_PAGE_PROGRAM == 2
CMD_SECTOR_ERASE == 216
CMD_BULK_ERASE == 199
CMD_DEEP_POWER_DOWN == 185
CMD_RELEASE_FROM_DEEP_POWER_DOWN == 171

\* Command codes of m25px16.c (the second driver defines its own table)
PX_CMD_WRITE_ENABLE == 6
PX_CMD_WRITE_DISABLE == 4
PX_CMD_READ_IDENTIFICATION == 159
PX_CMD_READ_STATUS_REGISTER == 5
PX_CMD_WRITE_STATUS_REGISTER == 1
PX_CMD_WRITE_LOCK_REGISTER == 229
PX_CMD_READ_LOCK_REGISTER == 232
PX_CMD_READ_DATA_BYTES == 3
PX_CMD_PAGE_PROGRAM == 2
PX_CMD_SECTOR_ERASE == 216
PX_CMD_BULK_ERASE == 199
PX_CMD_DEEP_POWER_DOWN == 185
PX_CMD_RELEASE_FROM_DEEP_POWER_DOWN == 171

(* ------------------------------------------------------------------ *)
(* Bounds of the model                                                *)
(* ------------------------------------------------------------------ *)
\* Calls the application makes in one run.
MaxCalls == 2
\* Busy status reads of one call that the recording transport keeps; the
\* poll loop itself is not bounded, further busy reads are just not recorded.
MaxPolls == 2

(* ------------------------------------------------------------------ *)
(* Arithmetic of the C types                                          *)
(* ------------------------------------------------------------------ *)
\* A uint32_t is kept as its two 16-bit halves [hi, lo].
U32(x) == [hi |-> (x \div 65536) % 65536, lo |-> x % 65536]

\* c * n in unsigned 32-bit arithmetic (c's low half below 2^15).
MulU32(c, n) ==
    LET ch == (c \div 65536) % 65536
        cl == c % 65536
        nh == (n \div 65536) % 65536
        nl == n % 65536
    IN  [hi |-> (ch * nl + cl * nh + ((cl * nl) \div 65536)) % 65536,
         lo |-> (cl * nl) % 65536]

\* The low 16 bits of a >> k, for k = 16, 8, 0.
Shr(a, k) ==
    CASE k = 16 -> a.hi
      [] k = 8  -> (a.hi % 256) * 256 + (a.lo \div 256)
      [] OTHER  -> a.lo

U8(x) == x % 256

RECURSIVE BitAnd(_, _)
BitAnd(a, b) ==
    IF a = 0 \/ b = 0 THEN 0
    ELSE (a % 2) * (b % 2) + 2 * BitAnd(a \div 2, b \div 2)

\* ((SREG) & (1 << 0)), ((SREG) & (1 << 1)), ... of the headers
M25P16_SREG_WRITE_IN_PROGRESS(SREG) == BitAnd(SREG, 1)
M25P16_SREG_WRITE_ENABLE_LATCH(SREG) == BitAnd(SREG, 2)

(* ------------------------------------------------------------------ *)
(* State                                                              *)
(* ------------------------------------------------------------------ *)
VARIABLES
    \* the application and the facade
    fn,        \* the public function the application is in ("none" before the first call)
    arg,       \* its arguments: [n |-> page / sector / address / value, buf, siz]
    pc,        \* position in that function: "idle", a source line "L79", or "done"
    ret,       \* the int the last facade call returned (meaningful when pc = "done")
    ncalls,    \* calls made so far
    mem0,      \* what the memory held when the current call was made (observer)
    prev,      \* the call before the current one, if a mutating facade call:
               \* [fn, arg, ret, mem0] (observer)
    \* the driver function running (callee frame)
    drv,       \* [fn, pc, addr, i, buf, siz, val]; pc = 0 when no driver function runs
    other,     \* the frame of a second caller's driver function while that caller
               \* is not running (NoDrv when there is no second caller)
    trip,      \* the calls of an erase, write, read sequence made so far, each as
               \* <<function, index, buffer, size>> (observer)
    \* memory written through pointer arguments
    sreg,      \* the uint8_t behind read_status_register's sreg / read_lock_register's pointer
    rbuf,      \* bytes stored so far into the caller's buffer / identification struct
    \* the bus as a recording transport sees it
    cs,        \* chip select asserted
    frame,     \* <<sent, received>> byte pairs of the assertion under way
    trace,     \* the completed transactions (frames) of the current call, in order
    busErr,    \* a primitive was used out of order (assert while asserted, ...)
    acq,       \* SPI_ASSERTs executed by the current driver function
    \* the flash device
    wel,       \* write enable latch
    wip,       \* write in progress: a self-timed cycle is running
    nv,        \* non-volatile status register bits (SRWD, BP2..BP0) as a byte
    mem,       \* memory: [over |-> address -> byte, base |-> byte per sector]
    pend,      \* the self-timed cycle that is running and what it leaves behind
    dpd,       \* deep power-down mode
    lockreg,   \* lock register per sector (M25PX16)
    stuck,     \* hardware fault: the status register reads WIP = 1 for ever
    xfail      \* transport fault: from now on no byte gets through, either way

appvars == <<fn, arg, pc, ret, ncalls, mem0, prev, other, trip>>
outvars == <<sreg, rbuf>>
busvars == <<cs, frame, trace, busErr, acq>>
devvars == <<wel, wip, nv, mem, pend, dpd, lockreg, stuck, xfail>>
vars == <<fn, arg, pc, ret, ncalls, mem0, prev, drv, other, trip, sreg, rbuf, cs, frame, trace, busErr, acq,
          wel, wip, nv, mem, pend, dpd, lockreg, stuck, xfail>>

(* ------------------------------------------------------------------ *)
(* The flash device (data sheet text quoted in the source comments)   *)
(* ------------------------------------------------------------------ *)
SECTORS == 0..(M25P16_SECTOR_COUNT - 1)
DeviceBytes == M25P16_PAGE_COUNT * M25P16_PAGE_BYTE_SIZE

\* Instruction codes the device decodes.
INSTR ==
    [WREN |-> 6, WRDI |-> 4, RDID |-> 159, RDSR |-> 5, WRSR |-> 1, READ |-> 3,
     PP |-> 2, SE |-> 216, BE |-> 199, DP |-> 185, RDP |-> 171,
     WRLR |-> 229, RDLR |-> 232]


SectorOf(a) == a \div M25P16_SECTOR_BYTE_SIZE

\* The byte at address a of memory m.
MemAt(m, a) ==
    IF a \in DOMAIN m.over THEN m.over[a] ELSE m.base[SectorOf(a)]

\* A memory that is fill everywhere.
FilledMem(fill) ==
    [over |-> [a \in {} |-> 0], base |-> [s \in SECTORS |-> fill]]

\* No self-timed cycle is running.
NoPend == [nv |-> 0, mem |-> FilledMem(255), op |-> "none"]

\* Index into data of the byte a PAGE PROGRAM at addr programs at address a
\* of the same page, 0 if none: data beyond the end of the page wraps to its
\* start, and of more than 256 bytes the last 256 are kept.
ProgramByteIndex(addr, len, a) ==
    LET k0 == (((a % 256) + 256 - (addr % 256)) % 256) + 1
    IN  IF k0 > len THEN 0 ELSE k0 + 256 * ((len - k0) \div 256)

\* PAGE PROGRAM: bits change from 1 to 0 only.
Program(m, addr, data) ==
    LET pageBase == addr - (addr % 256)
        Index(a) == IF a - (a % 256) = pageBase
                    THEN ProgramByteIndex(addr, Len(data), a) ELSE 0
        newv(a) == IF Index(a) # 0
                   THEN BitAnd(MemAt(m, a), data[Index(a)])
                   ELSE m.over[a]
        targets == {a \in {pageBase + o : o \in 0..255} : Index(a) # 0}
        keep == {a \in (DOMAIN m.over) \cup targets : newv(a) # m.base[SectorOf(a)]}
    IN  [over |-> [a \in keep |-> newv(a)], base |-> m.base]

\* SECTOR ERASE: all bits of the sector set to 1 (FFh).
Erase(m, s) ==
    [over |-> [a \in {x \in DOMAIN m.over : SectorOf(x) # s} |-> m.over[a]],
     base |-> [m.base EXCEPT ![s] = 255]]

\* BULK ERASE: all bits set to 1 (FFh).
BulkErase == FilledMem(255)

\* Block protect bits BP2..BP0 of the status register.
BP == (nv \div 4) % 8

\* Number of sectors, counted from the top, that BP protects
\* (Protected Area Sizes: none, 1/32, 1/16, 1/8, 1/4, 1/2, all, all).
ProtectedCount(bp) ==
    CASE bp = 0 -> 0
      [] bp = 1 -> 1
      [] bp = 2 -> 2
      [] bp = 3 -> 4
      [] bp = 4 -> 8
      [] bp = 5 -> 16
      [] OTHER  -> M25P16_SECTOR_COUNT

\* PROGRAM and ERASE commands on sector s are not executed.
SectorProtected(s) ==
    \/ s >= M25P16_SECTOR_COUNT - ProtectedCount(BP)
    \/ BitAnd(lockreg[s], 1) # 0

\* The status register as read by READ STATUS REGISTER.
StatusByte ==
    nv + (IF wel THEN 2 ELSE 0) + (IF wip \/ stuck THEN 1 ELSE 0)

\* The 24-bit address of an addressed command; the device decodes A20..A0.
FrameAddr(f) == (f[2][1] * 65536 + f[3][1] * 256 + f[4][1]) % DeviceBytes

\* Length byte of the identification's customized factory data, and the
\* i-th byte of its content.
CfdLens == {0, 2, 16, 17}

CfdByte(i) == (161 + i) % 256

\* The bytes of assertion f that reached the device: a byte the transport
\* lost is logged as a triple.
Delivered(f) == SelectSeq(f, LAMBDA e : Len(e) = 2)

\* The bytes the device may shift out while the (Len(f)+1)-th byte of the
\* assertion is clocked. Commands that read nothing, and instructions the
\* device rejects, leave the line undriven: whatever level it has is read.
\* So does a transport that has failed.
MISO(f) ==
    LET n == Len(f)
        op == f[1][1]
        reads == {INSTR.RDSR, INSTR.READ, INSTR.RDID, INSTR.RDLR}
        first == IF op \in {INSTR.READ, INSTR.RDLR} THEN 4 ELSE 1
    IN  IF xfail THEN IF n > 0 /\ Len(f[n]) = 3 THEN {f[n][2]} ELSE {0, 255}
        ELSE IF n = 0 THEN {0}
        ELSE IF op \notin reads \/ n < first THEN {0}
        ELSE IF dpd \/ (wip /\ op # INSTR.RDSR)
             THEN IF n = first THEN {0, 255} ELSE {f[n][2]}
        ELSE IF op = INSTR.RDSR THEN {StatusByte}
        ELSE IF op = INSTR.READ THEN {MemAt(mem, (FrameAddr(f) + n - 4) % DeviceBytes)}
        ELSE IF op = INSTR.RDLR THEN {lockreg[SectorOf(FrameAddr(f))]}
        ELSE IF n = 1 THEN {32}
        ELSE IF n = 2 THEN {32}
        ELSE IF n = 3 THEN {21}
        ELSE IF n = 4 THEN CfdLens
        ELSE {CfdByte(n - 5)}

\* Chip select driven high after frame f: the device decodes the instruction
\* and executes it, or starts its self-timed cycle.
DeviceExecute(f) ==
    LET n == Len(f)
        op == f[1][1]
        data == [k \in 1..(n - 4) |-> f[k + 4][1]]
        s == SectorOf(FrameAddr(f))
    IN  IF n = 0 THEN UNCHANGED devvars
        ELSE IF dpd
        THEN /\ dpd' = ~(op = INSTR.RDP /\ n = 1)
             /\ UNCHANGED <<wel, wip, nv, mem, pend, lockreg, stuck, xfail>>
        ELSE IF wip THEN UNCHANGED devvars
        ELSE IF op = INSTR.WREN /\ n = 1
        THEN wel' = TRUE /\ UNCHANGED <<wip, nv, mem, pend, dpd, lockreg, stuck, xfail>>
        ELSE IF op = INSTR.WRDI /\ n = 1
        THEN wel' = FALSE /\ UNCHANGED <<wip, nv, mem, pend, dpd, lockreg, stuck, xfail>>
        ELSE IF op = INSTR.DP /\ n = 1
        THEN dpd' = TRUE /\ UNCHANGED <<wel, wip, nv, mem, pend, lockreg, stuck, xfail>>
        ELSE IF op = INSTR.WRSR /\ n = 2 /\ wel
        THEN /\ wip' = TRUE
             /\ pend' = [nv |-> BitAnd(f[2][1], 156), mem |-> mem, op |-> "WRSR"]
             /\ UNCHANGED <<wel, nv, mem, dpd, lockreg, stuck, xfail>>
        ELSE IF op = INSTR.PP /\ n >= 5 /\ wel /\ ~SectorProtected(s)
        THEN /\ wip' = TRUE
             /\ pend' = [nv |-> nv, mem |-> Program(mem, FrameAddr(f), data), op |-> "PP"]
             /\ UNCHANGED <<wel, nv, mem, dpd, lockreg, stuck, xfail>>
        ELSE IF op = INSTR.SE /\ n = 4 /\ wel /\ ~SectorProtected(s)
        THEN /\ wip' = TRUE
             /\ pend' = [nv |-> nv, mem |-> Erase(mem, s), op |-> "SE"]
             /\ UNCHANGED <<wel, nv, mem, dpd, lockreg, stuck, xfail>>
        ELSE IF op = INSTR.BE /\ n = 1 /\ wel /\ \A x \in SECTORS : ~SectorProtected(x)
        THEN /\ wip' = TRUE
             /\ pend' = [nv |-> nv, mem |-> BulkErase, op |-> "BE"]
             /\ UNCHANGED <<wel, nv, mem, dpd, lockreg, stuck, xfail>>
        ELSE IF op = INSTR.WRLR /\ n = 5 /\ wel
        THEN /\ lockreg' = IF BitAnd(lockreg[s], 2) # 0 THEN lockreg
                           ELSE [lockreg EXCEPT ![s] = BitAnd(f[5][1], 3)]
             /\ wel' = FALSE
             /\ UNCHANGED <<wip, nv, mem, pend, dpd, stuck, xfail>>
        ELSE UNCHANGED devvars

\* The self-timed cycle completes: its effect is in place, WIP and WEL are 0.
CycleEnd ==
    /\ wip
    /\ wip' = FALSE
    /\ wel' = FALSE
    /\ pend' = NoPend
    /\ mem' = pend.mem
    /\ nv' = pend.nv
    /\ UNCHANGED <<dpd, lockreg, stuck, xfail>>
    /\ UNCHANGED <<appvars, drv, outvars, busvars>>

\* "At some unspecified time before the cycle is completed, the WEL bit is reset."
WelReset ==
    /\ wip /\ wel
    /\ wel' = FALSE
    /\ UNCHANGED <<wip, nv, mem, pend, dpd, lockreg, stuck, xfail>>
    /\ UNCHANGED <<appvars, drv, outvars, busvars>>

(* ------------------------------------------------------------------ *)
(* The bus primitives (SPI_ASSERT, SPI_TRANSMIT, SPI_DEASSERT)        *)
(* ------------------------------------------------------------------ *)
\* A completed status read that reported WIP = 1.
IsBusyRead(f) ==
    Len(f) = 2 /\ f[1][1] = INSTR.RDSR /\ M25P16_SREG_WRITE_IN_PROGRESS(f[2][2]) # 0

BusyReads(t) == Cardinality({k \in 1..Len(t) : IsBusyRead(t[k])})

\* A completed status read that reported WIP = 0.
IsReadyRead(f) ==
    Len(f) = 2 /\ f[1][1] = INSTR.RDSR /\ M25P16_SREG_WRITE_IN_PROGRESS(f[2][2]) = 0

ReadyReads(t) == Cardinality({k \in 1..Len(t) : IsReadyRead(t[k])})

\* The log keeps at most MaxPolls status reads of each kind per call.
LogFull(t, f) ==
    \/ IsBusyRead(f) /\ BusyReads(t) >= MaxPolls
    \/ IsReadyRead(f) /\ ReadyReads(t) >= MaxPolls

\* Chip select low: a new assertion begins.
SPI_ASSERT ==
    /\ cs' = TRUE
    /\ frame' = IF cs THEN frame ELSE <<>>
    /\ busErr' = (busErr \/ cs)
    /\ acq' = acq + 1
    /\ UNCHANGED <<trace, devvars>>

\* One byte out, one byte r back (full duplex).
SPI_TRANSMIT(D, r) ==
    /\ r \in MISO(frame)
    /\ frame' = Append(frame, IF xfail THEN <<U8(D), r, TRUE>> ELSE <<U8(D), r>>)
    /\ busErr' = (busErr \/ ~cs)
    /\ UNCHANGED <<cs, trace, acq, devvars>>

\* Chip select high: the assertion ends and the device acts on it.
SPI_DEASSERT ==
    /\ cs' = FALSE
    /\ frame' = <<>>
    /\ trace' = IF LogFull(trace, frame) THEN trace ELSE Append(trace, frame)
    /\ busErr' = (busErr \/ ~cs)
    /\ DeviceExecute(IF xfail THEN Delivered(frame) ELSE frame)
    /\ UNCHANGED acq

(* ------------------------------------------------------------------ *)
(* The chip command drivers                                           *)
(* ------------------------------------------------------------------ *)
NoDrv == [fn |-> "none", pc |-> 0, addr |-> U32(0), i |-> 0, buf |-> <<>>, siz |-> 0, val |-> 0]

\* The frame of a driver function just called: at its first statement.
DrvFrame(f, addr, buf, siz, val) ==
    [fn |-> f, pc |-> 1, addr |-> addr, i |-> 0, buf |-> buf, siz |-> siz, val |-> val]

\* A caller calls driver function f.
CallDrv(f, addr, buf, siz, val) ==
    /\ drv' = DrvFrame(f, addr, buf, siz, val)
    /\ acq' = 0
    /\ UNCHANGED <<other, trip, cs, frame, trace, busErr, devvars>>

\* The driver function called last has returned (or none was called yet).
Returned == drv.pc = 0

Goto(k) == drv' = [drv EXCEPT !.pc = k]

\* SPI_ASSERT(); SPI_TRANSMIT(cmd); SPI_DEASSERT();
SingleByteCommand(f, cmd) ==
    /\ drv.fn = f
    /\ \/ drv.pc = 1 /\ SPI_ASSERT /\ Goto(2)
       \/ drv.pc = 2 /\ (\E r \in MISO(frame) : SPI_TRANSMIT(cmd, r)) /\ Goto(3)
       \/ drv.pc = 3 /\ SPI_DEASSERT /\ Goto(0)
    /\ UNCHANGED <<appvars, outvars>>

\* The three address bytes, most significant first (statements 3, 4, 5).
\* Variant: the address bytes least significant first.
TransmitAddress_LsbFirst ==
    \/ drv.pc = 3 /\ (\E r \in MISO(frame) : SPI_TRANSMIT(Shr(drv.addr, 0), r)) /\ Goto(4)
    \/ drv.pc = 4 /\ (\E r \in MISO(frame) : SPI_TRANSMIT(Shr(drv.addr, 8), r)) /\ Goto(5)
    \/ drv.pc = 5 /\ (\E r \in MISO(frame) : SPI_TRANSMIT(Shr(drv.addr, 16), r)) /\ Goto(6)

\* Variant: the first address byte is bits 31..24 of the address.
TransmitAddress_TopBits ==
    \/ drv.pc = 3 /\ (\E r \in MISO(frame) : SPI_TRANSMIT(drv.addr.hi \div 256, r)) /\ Goto(4)
    \/ drv.pc = 4 /\ (\E r \in MISO(frame) : SPI_TRANSMIT(Shr(drv.addr, 8), r)) /\ Goto(5)
    \/ drv.pc = 5 /\ (\E r \in MISO(frame) : SPI_TRANSMIT(Shr(drv.addr, 0), r)) /\ Goto(6)

\* SPI_TRANSMIT(addr >> 16); SPI_TRANSMIT(addr >> 8); SPI_TRANSMIT(addr >> 0);
TransmitAddress ==
    \/ drv.pc = 3 /\ (\E r \in MISO(frame) : SPI_TRANSMIT(Shr(drv.addr, 16), r)) /\ Goto(4)
    \/ drv.pc = 4 /\ (\E r \in MISO(frame) : SPI_TRANSMIT(Shr(drv.addr, 8), r)) /\ Goto(5)
    \/ drv.pc = 5 /\ (\E r \in MISO(frame) : SPI_TRANSMIT(Shr(drv.addr, 0), r)) /\ Goto(6)

\* Number of elements of cfd_content in the identification structure.
CFD_CONTENT_SIZE == 16

\* p->cfd_content[i] = r. The structure ends with cfd_content, so an index
\* past its last element is a store outside the object: the byte lands in
\* whatever follows the structure (rbuf grows by that byte), or the store
\* traps and the call never returns (pc = -1).
StoreCfdContent(i, r) ==
    IF i < CFD_CONTENT_SIZE
    THEN /\ rbuf' = [rbuf EXCEPT ![5 + i] = r]
         /\ drv' = [drv EXCEPT !.i = i + 1]
    ELSE \/ /\ rbuf' = IF 5 + i <= Len(rbuf)
                        THEN [rbuf EXCEPT ![5 + i] = r]
                        ELSE Append(rbuf, r)
            /\ drv' = [drv EXCEPT !.i = i + 1]
         \/ /\ rbuf' = rbuf
            /\ drv' = [drv EXCEPT !.pc = -1]

\* Variant: the content loop runs while i <= cfd_length.
ReadIdentification_OneMore(f, cmd) ==
    /\ drv.fn = f
    /\ \/ drv.pc = 1 /\ SPI_ASSERT /\ Goto(2) /\ UNCHANGED rbuf
       \/ drv.pc = 2 /\ (\E r \in MISO(frame) : SPI_TRANSMIT(cmd, r)) /\ Goto(3)
             /\ UNCHANGED rbuf
       \/ /\ drv.pc \in 3..6
          /\ \E r \in MISO(frame) :
                /\ SPI_TRANSMIT(0, r)
                /\ rbuf' = [rbuf EXCEPT ![drv.pc - 2] = r]
          /\ Goto(drv.pc + 1)
       \/ /\ drv.pc = 7 /\ drv.i <= rbuf[4]
          /\ \E r \in MISO(frame) : SPI_TRANSMIT(0, r) /\ StoreCfdContent(drv.i, r)
       \/ drv.pc = 7 /\ ~(drv.i <= rbuf[4]) /\ SPI_DEASSERT /\ Goto(0) /\ UNCHANGED rbuf
    /\ UNCHANGED <<appvars, sreg>>

ReadIdentification(f, cmd) ==
    /\ drv.fn = f
    /\ \/ drv.pc = 1 /\ SPI_ASSERT /\ Goto(2) /\ UNCHANGED rbuf
       \/ drv.pc = 2 /\ (\E r \in MISO(frame) : SPI_TRANSMIT(cmd, r)) /\ Goto(3)
             /\ UNCHANGED rbuf
       \/ /\ drv.pc \in 3..6
          /\ \E r \in MISO(frame) :
                /\ SPI_TRANSMIT(0, r)
                /\ rbuf' = [rbuf EXCEPT ![drv.pc - 2] = r]
          /\ Goto(drv.pc + 1)
       \/ /\ drv.pc = 7 /\ drv.i < rbuf[4]
          /\ \E r \in MISO(frame) : SPI_TRANSMIT(0, r) /\ StoreCfdContent(drv.i, r)
       \/ drv.pc = 7 /\ ~(drv.i < rbuf[4]) /\ SPI_DEASSERT /\ Goto(0) /\ UNCHANGED rbuf
    /\ UNCHANGED <<appvars, sreg>>

ReadStatusRegister(f, cmd) ==
    /\ drv.fn = f
    /\ \/ drv.pc = 1 /\ SPI_ASSERT /\ Goto(2) /\ UNCHANGED sreg
       \/ drv.pc = 2 /\ (\E r \in MISO(frame) : SPI_TRANSMIT(cmd, r)) /\ Goto(3)
             /\ UNCHANGED sreg
       \/ drv.pc = 3 /\ (\E r \in MISO(frame) : SPI_TRANSMIT(0, r) /\ sreg' = r) /\ Goto(4)
       \/ drv.pc = 4 /\ SPI_DEASSERT /\ Goto(0) /\ UNCHANGED sreg
    /\ UNCHANGED <<appvars, rbuf>>

WriteStatusRegister(f, cmd) ==
    /\ drv.fn = f
    /\ \/ drv.pc = 1 /\ SPI_ASSERT /\ Goto(2)
       \/ drv.pc = 2 /\ (\E r \in MISO(frame) : SPI_TRANSMIT(cmd, r)) /\ Goto(3)
       \/ drv.pc = 3 /\ (\E r \in MISO(frame) : SPI_TRANSMIT(drv.val, r)) /\ Goto(4)
       \/ drv.pc = 4 /\ SPI_DEASSERT /\ Goto(0)
    /\ UNCHANGED <<appvars, outvars>>

ReadDataBytes(f, cmd) ==
    /\ drv.fn = f
    /\ \/ drv.pc = 1 /\ SPI_ASSERT /\ Goto(2) /\ UNCHANGED rbuf
       \/ drv.pc = 2 /\ (\E r \in MISO(frame) : SPI_TRANSMIT(cmd, r)) /\ Goto(3)
             /\ UNCHANGED rbuf
       \/ TransmitAddress /\ UNCHANGED rbuf
       \/ /\ drv.pc = 6 /\ drv.i < drv.siz
          /\ \E r \in MISO(frame) :
                /\ SPI_TRANSMIT(0, r)
                /\ rbuf' = [rbuf EXCEPT ![drv.i + 1] = r]
          /\ drv' = [drv EXCEPT !.i = drv.i + 1]
       \/ drv.pc = 6 /\ ~(drv.i < drv.siz) /\ SPI_DEASSERT /\ Goto(0) /\ UNCHANGED rbuf
    /\ UNCHANGED <<appvars, sreg>>

\* Variant: the data bytes go out last first.
PageProgram_LastFirst(f, cmd) ==
    /\ drv.fn = f
    /\ \/ drv.pc = 1 /\ SPI_ASSERT /\ Goto(2)
       \/ drv.pc = 2 /\ (\E r \in MISO(frame) : SPI_TRANSMIT(cmd, r)) /\ Goto(3)
       \/ TransmitAddress
       \/ /\ drv.pc = 6 /\ drv.i < drv.siz
          /\ \E r \in MISO(frame) : SPI_TRANSMIT(drv.buf[drv.siz - drv.i], r)
          /\ drv' = [drv EXCEPT !.i = drv.i + 1]
       \/ drv.pc = 6 /\ ~(drv.i < drv.siz) /\ SPI_DEASSERT /\ Goto(0)
    /\ UNCHANGED <<appvars, outvars>>

PageProgram(f, cmd) ==
    /\ drv.fn = f
    /\ \/ drv.pc = 1 /\ SPI_ASSERT /\ Goto(2)
       \/ drv.pc = 2 /\ (\E r \in MISO(frame) : SPI_TRANSMIT(cmd, r)) /\ Goto(3)
       \/ TransmitAddress
       \/ /\ drv.pc = 6 /\ drv.i < drv.siz
          /\ \E r \in MISO(frame) : SPI_TRANSMIT(drv.buf[drv.i + 1], r)
          /\ drv' = [drv EXCEPT !.i = drv.i + 1]
       \/ drv.pc = 6 /\ ~(drv.i < drv.siz) /\ SPI_DEASSERT /\ Goto(0)
    /\ UNCHANGED <<appvars, outvars>>

SectorErase(f, cmd) ==
    /\ drv.fn = f
    /\ \/ drv.pc = 1 /\ SPI_ASSERT /\ Goto(2)
       \/ drv.pc = 2 /\ (\E r \in MISO(frame) : SPI_TRANSMIT(cmd, r)) /\ Goto(3)
       \/ TransmitAddress
       \/ drv.pc = 6 /\ SPI_DEASSERT /\ Goto(0)
    /\ UNCHANGED <<appvars, outvars>>

\* SPI_INIT(): the bus is set up; nothing is put on it.
DriverInit(f) ==
    /\ drv.fn = f /\ drv.pc = 1
    /\ Goto(0)
    /\ UNCHANGED <<appvars, outvars, busvars, devvars>>

\* ---- m25p16.c ----
m25p16_init == DriverInit("m25p16_init")
\* Variant: write_enable returns without SPI_DEASSERT().
m25p16_write_enable_NoDeassert ==
    /\ drv.fn = "m25p16_write_enable"
    /\ \/ drv.pc = 1 /\ SPI_ASSERT /\ Goto(2)
       \/ drv.pc = 2 /\ (\E r \in MISO(frame) : SPI_TRANSMIT(CMD_WRITE_ENABLE, r)) /\ Goto(0)
    /\ UNCHANGED <<appvars, outvars>>

m25p16_write_enable == SingleByteCommand("m25p16_write_enable", CMD_WRITE_ENABLE)
\* Variant: write_disable sends the WREN instruction.
m25p16_write_disable_SendsWren == SingleByteCommand("m25p16_write_disable", CMD_WRITE_ENABLE)

m25p16_write_disable == SingleByteCommand("m25p16_write_disable", CMD_WRITE_DISABLE)
m25p16_read_identification ==
    ReadIdentification("m25p16_read_identification", CMD_READ_IDENTIFICATION)
m25p16_read_status_register ==
    ReadStatusRegister("m25p16_read_status_register", CMD_READ_STATUS_REGISTER)
m25p16_write_status_register ==
    WriteStatusRegister("m25p16_write_status_register", CMD_WRITE_STATUS_REGISTER)
\* Variant: read_data_bytes sends the page-program opcode.
m25p16_read_data_bytes_SendsProgram ==
    ReadDataBytes("m25p16_read_data_bytes", CMD_PAGE_PROGRAM)

m25p16_read_data_bytes == ReadDataBytes("m25p16_read_data_bytes", CMD_READ_DATA_BYTES)
\* Variant: page_program returns at once, bus still asserted, when a byte is lost.
m25p16_page_program_AbortsOnFailure ==
    \/ ~(xfail /\ drv.pc > 2) /\ PageProgram("m25p16_page_program", CMD_PAGE_PROGRAM)
    \/ /\ drv.fn = "m25p16_page_program" /\ drv.pc > 2 /\ xfail
       /\ Goto(0)
       /\ UNCHANGED <<appvars, outvars, busvars, devvars>>

m25p16_page_program == PageProgram("m25p16_page_program", CMD_PAGE_PROGRAM)
\* Variant: sector_erase returns at once when the device is powered down.
m25p16_sector_erase_RefusedWhenDown ==
    \/ ~(dpd /\ drv.pc = 1) /\ SectorErase("m25p16_sector_erase", CMD_SECTOR_ERASE)
    \/ /\ drv.fn = "m25p16_sector_erase" /\ drv.pc = 1 /\ dpd
       /\ Goto(0)
       /\ UNCHANGED <<appvars, outvars, busvars, devvars>>

\* Variant: sector_erase sends the read opcode.
m25p16_sector_erase_SendsRead ==
    SectorErase("m25p16_sector_erase", CMD_READ_DATA_BYTES)

m25p16_sector_erase == SectorErase("m25p16_sector_erase", CMD_SECTOR_ERASE)
m25p16_bulk_erase == SingleByteCommand("m25p16_bulk_erase", CMD_BULK_ERASE)
\* Variant: deep power-down sends the release opcode.
m25p16_deep_power_down_SendsRelease ==
    SingleByteCommand("m25p16_deep_power_down", CMD_RELEASE_FROM_DEEP_POWER_DOWN)

m25p16_deep_power_down == SingleByteCommand("m25p16_deep_power_down", CMD_DEEP_POWER_DOWN)
m25p16_release_from_deep_power_down ==
    SingleByteCommand("m25p16_release_from_deep_power_down", CMD_RELEASE_FROM_DEEP_POWER_DOWN)

\* ---- m25px16.c ----
m25px16_init == DriverInit("m25px16_init")
m25px16_write_enable == SingleByteCommand("m25px16_write_enable", PX_CMD_WRITE_ENABLE)
m25px16_write_disable == SingleByteCommand("m25px16_write_disable", PX_CMD_WRITE_DISABLE)
m25px16_read_identification ==
    ReadIdentification("m25px16_read_identification", PX_CMD_READ_IDENTIFICATION)
\* Variant: read_status_register sends the write-status-register opcode.
m25px16_read_status_register_SendsWrite ==
    ReadStatusRegister("m25px16_read_status_register", PX_CMD_WRITE_STATUS_REGISTER)

m25px16_read_status_register ==
    ReadStatusRegister("m25px16_read_status_register", PX_CMD_READ_STATUS_REGISTER)
m25px16_write_status_register ==
    WriteStatusRegister("m25px16_write_status_register", PX_CMD_WRITE_STATUS_REGISTER)

\* Variant: the lock register value goes out before the address.
m25px16_write_lock_register_ValueFirst ==
    /\ drv.fn = "m25px16_write_lock_register"
    /\ \/ drv.pc = 1 /\ SPI_ASSERT /\ Goto(2)
       \/ drv.pc = 2 /\ (\E r \in MISO(frame) : SPI_TRANSMIT(PX_CMD_WRITE_LOCK_REGISTER, r))
             /\ Goto(6)
       \/ TransmitAddress /\ drv.pc < 5
       \/ drv.pc = 5 /\ (\E r \in MISO(frame) : SPI_TRANSMIT(Shr(drv.addr, 0), r)) /\ Goto(7)
       \/ drv.pc = 6 /\ (\E r \in MISO(frame) : SPI_TRANSMIT(drv.val, r)) /\ Goto(3)
       \/ drv.pc = 7 /\ SPI_DEASSERT /\ Goto(0)
    /\ UNCHANGED <<appvars, outvars>>

m25px16_write_lock_register ==
    /\ drv.fn = "m25px16_write_lock_register"
    /\ \/ drv.pc = 1 /\ SPI_ASSERT /\ Goto(2)
       \/ drv.pc = 2 /\ (\E r \in MISO(frame) : SPI_TRANSMIT(PX_CMD_WRITE_LOCK_REGISTER, r))
             /\ Goto(3)
       \/ TransmitAddress
       \/ drv.pc = 6 /\ (\E r \in MISO(frame) : SPI_TRANSMIT(drv.val, r)) /\ Goto(7)
       \/ drv.pc = 7 /\ SPI_DEASSERT /\ Goto(0)
    /\ UNCHANGED <<appvars, outvars>>

m25px16_read_lock_register ==
    /\ drv.fn = "m25px16_read_lock_register"
    /\ \/ drv.pc = 1 /\ SPI_ASSERT /\ Goto(2) /\ UNCHANGED sreg
       \/ drv.pc = 2 /\ (\E r \in MISO(frame) : SPI_TRANSMIT(PX_CMD_READ_LOCK_REGISTER, r))
             /\ Goto(3) /\ UNCHANGED sreg
       \/ TransmitAddress /\ UNCHANGED sreg
       \/ drv.pc = 6 /\ (\E r \in MISO(frame) : SPI_TRANSMIT(0, r) /\ sreg' = r) /\ Goto(7)
       \/ drv.pc = 7 /\ SPI_DEASSERT /\ Goto(0) /\ UNCHANGED sreg
    /\ UNCHANGED <<appvars, rbuf>>

m25px16_read_data_bytes == ReadDataBytes("m25px16_read_data_bytes", PX_CMD_READ_DATA_BYTES)
m25px16_page_program == PageProgram("m25px16_page_program", PX_CMD_PAGE_PROGRAM)
\* Variant: the second driver erases with the subsector erase code 20h.
m25px16_sector_erase_AsSubsector == SectorErase("m25px16_sector_erase", 32)

m25px16_sector_erase == SectorErase("m25px16_sector_erase", PX_CMD_SECTOR_ERASE)
\* Variant: bulk_erase without SPI_DEASSERT().
m25px16_bulk_erase_NoDeassert ==
    /\ drv.fn = "m25px16_bulk_erase"
    /\ \/ drv.pc = 1 /\ SPI_ASSERT /\ Goto(2)
       \/ drv.pc = 2 /\ (\E r \in MISO(frame) : SPI_TRANSMIT(PX_CMD_BULK_ERASE, r)) /\ Goto(0)
    /\ UNCHANGED <<appvars, outvars>>

m25px16_bulk_erase == SingleByteCommand("m25px16_bulk_erase", PX_CMD_BULK_ERASE)
m25px16_deep_power_down ==
    SingleByteCommand("m25px16_deep_power_down", PX_CMD_DEEP_POWER_DOWN)
m25px16_release_from_deep_power_down ==
    SingleByteCommand("m25px16_release_from_deep_power_down",
                      PX_CMD_RELEASE_FROM_DEEP_POWER_DOWN)

(* ------------------------------------------------------------------ *)
(* The application: which calls it makes, with which arguments        *)
(* ------------------------------------------------------------------ *)
Sectors == {0, 31}
Pages == {0, 8191}

BufAB == <<170, 187>>
PatternByte(k) == (k * 37 + 5) % 256
BufPage == [k \in 1..M25P16_PAGE_BYTE_SIZE |-> PatternByte(k)]
BufLong == [k \in 1..(M25P16_PAGE_BYTE_SIZE + 1) |-> PatternByte(k)]

\* (page, buf, siz) handed to flash_page_write: short buffers and an
\* oversized one on every page, a whole page of data on the first page.
WriteCalls ==
    {<<p, w[1], w[2]>> : p \in Pages, w \in {<<(<<>>), 0>>, <<BufAB, 2>>, <<BufLong, 257>>}}
        \cup {<<0, BufPage, 256>>}
\* (page, siz) handed to flash_page_read
ReadCalls ==
    {<<p, n>> : p \in Pages, n \in {0, 2, 257}} \cup {<<0, 256>>}

\* Memory fill and status register (block protect bits) found at power-up,
\* both non-volatile: a blank part without protection, and a used part whose
\* top sector is protected (BP0 = 1).
PowerUpStates == {<<255, 0>>, <<15, 4>>}

NoArg == [n |-> 0, buf |-> <<>>, siz |-> 0]

\* No mutating facade call came right before the current call.
NoPrev == [fn |-> "none", arg |-> NoArg, ret |-> 0, mem0 |-> FilledMem(255)]

\* An out-buffer of siz bytes the callee has not written yet.
Unwritten(siz) == [k \in 1..siz |-> -1]

\* The application calls public function f with arguments a and out-buffer b;
\* l is the first statement of f.
Enter(f, a, b, l) ==
    /\ pc \in {"idle", "done"}
    /\ ncalls < MaxCalls
    /\ fn' = f /\ arg' = a /\ pc' = l
    /\ ncalls' = ncalls + 1
    /\ ret' = 0
    /\ mem0' = mem
    /\ prev' = IF fn \in {"flash_sector_erase", "flash_page_write"}
               THEN [fn |-> fn, arg |-> arg, ret |-> ret, mem0 |-> mem0]
               ELSE NoPrev
    /\ drv' = NoDrv
    /\ sreg' = 0
    /\ rbuf' = b
    /\ trace' = <<>>
    /\ acq' = 0
    /\ UNCHANGED <<other, trip, cs, frame, busErr, devvars>>

\* A facade statement that is not a driver call.
Local == UNCHANGED <<drv, other, trip, busvars, devvars>>

(* ------------------------------------------------------------------ *)
(* The storage facade (flash_m25p16.c)                                *)
(* ------------------------------------------------------------------ *)
\* Variant: the sector index reduced to the device's sectors first.
SectorAddress_InRange(sector) ==
    MulU32(M25P16_SECTOR_BYTE_SIZE, sector % M25P16_SECTOR_COUNT)

\* Variant: the address of the sector after the one asked for.
SectorAddress_NextSector(sector) == MulU32(M25P16_SECTOR_BYTE_SIZE, sector + 1)

\* Variant: the sector index scaled by the page size.
SectorAddress_PageUnit(sector) == MulU32(M25P16_PAGE_BYTE_SIZE, sector)

\* M25P16_SECTOR_BYTE_SIZE * sector
SectorAddress(sector) == MulU32(M25P16_SECTOR_BYTE_SIZE, sector)

\* Variant: the page index scaled by the sector size.
PageWriteAddress_SectorUnit(page) == MulU32(M25P16_SECTOR_BYTE_SIZE, page)

\* Variant: only the low byte of the page index is used.
PageWriteAddress_LowByte(page) == MulU32(M25P16_PAGE_BYTE_SIZE, page % 256)

\* Variant: pages counted from one.
PageWriteAddress_OneBased(page) == MulU32(M25P16_PAGE_BYTE_SIZE, page + 1)

\* unsigned int addr = M25P16_PAGE_BYTE_SIZE * page;   (flash_page_write)
PageWriteAddress(page) == MulU32(M25P16_PAGE_BYTE_SIZE, page)

\* Variant: the address computed for the preceding flash_page_write is used
\* again.
PageReadAddress_KeepsLast(page) ==
    MulU32(M25P16_PAGE_BYTE_SIZE, IF prev.fn = "flash_page_write" THEN prev.arg.n ELSE page)

\* Variant: the page index scaled by the sector size.
PageReadAddress_SectorUnit(page) == MulU32(M25P16_SECTOR_BYTE_SIZE, page)

\* unsigned int addr = M25P16_PAGE_BYTE_SIZE * page;   (flash_page_read)
PageReadAddress(page) == MulU32(M25P16_PAGE_BYTE_SIZE, page)

\* Variant: the limit is one byte too high.
PageWriteSizeError_OffByOne(siz) == M25P16_PAGE_BYTE_SIZE + 1 < siz

\* if (M25P16_PAGE_BYTE_SIZE < siz)                    (flash_page_write)
PageWriteSizeError(siz) == M25P16_PAGE_BYTE_SIZE < siz

\* Variant: the limit is one byte too high.
PageReadSizeError_OffByOne(siz) == M25P16_PAGE_BYTE_SIZE + 1 < siz

\* Variant: an empty read is rejected as well.
PageReadSizeError_RejectsEmpty(siz) == siz = 0 \/ M25P16_PAGE_BYTE_SIZE < siz

\* if (M25P16_PAGE_BYTE_SIZE < siz)                    (flash_page_read)
PageReadSizeError(siz) == M25P16_PAGE_BYTE_SIZE < siz

\* Variants of the loop condition: polling on the WEL bit, never polling
\* again, polling while any bit of the status register is set, polling only
\* while WEL is set as well.
PollAgain_TestsWel(s) == M25P16_SREG_WRITE_ENABLE_LATCH(s) # 0
PollAgain_Never(s) == FALSE
PollAgain_AnyBit(s) == s # 0
PollAgain_WhileEnabled(s) ==
    M25P16_SREG_WRITE_IN_PROGRESS(s) # 0 /\ M25P16_SREG_WRITE_ENABLE_LATCH(s) # 0
\* Variant: the loop goes on while WEL or WIP is set.
PollAgain_WelOrWip(s) == BitAnd(s, 3) # 0

\* Variant: the loop tests bit 7 (SRWD) of the status register.
PollAgain_TestsSrwd(s) == BitAnd(s, 128) # 0

\* while (M25P16_SREG_WRITE_IN_PROGRESS(sreg))
PollAgain(s) == M25P16_SREG_WRITE_IN_PROGRESS(s) # 0

\* Variant: flash_init reports a failure when the device is not ready.
flash_init_ProbesDevice ==
    \/ Enter("flash_init", NoArg, <<>>, "L46")
    \/ /\ fn = "flash_init"
       /\ \/ /\ pc = "L46"
             /\ CallDrv("m25p16_init", U32(0), <<>>, 0, 0)
             /\ pc' = "L47"
             /\ UNCHANGED <<fn, arg, ret, ncalls, mem0, prev, outvars>>
          \/ /\ pc = "L47" /\ Returned
             /\ ret' = (IF wip \/ dpd THEN -1 ELSE 0) /\ pc' = "done"
             /\ Local /\ UNCHANGED <<fn, arg, ncalls, mem0, prev, outvars>>

flash_init ==
    \/ Enter("flash_init", NoArg, <<>>, "L46")
    \/ /\ fn = "flash_init"
       /\ \/ /\ pc = "L46"
             /\ CallDrv("m25p16_init", U32(0), <<>>, 0, 0)
             /\ pc' = "L47"
             /\ UNCHANGED <<fn, arg, ret, ncalls, mem0, prev, outvars>>
          \/ /\ pc = "L47" /\ Returned
             /\ ret' = 0 /\ pc' = "done"
             /\ Local /\ UNCHANGED <<fn, arg, ncalls, mem0, prev, outvars>>

\* Variant: sector_count and sector_bytes stored in each other's field.
flash_info_SwapsSectorFields ==
    \/ Enter("flash_info", NoArg, Unwritten(4), "L60")
    \/ /\ fn = "flash_info"
       /\ \/ /\ pc = "L60"
             /\ rbuf' = <<M25P16_PAGE_COUNT, M25P16_PAGE_BYTE_SIZE,
                          M25P16_SECTOR_BYTE_SIZE, M25P16_SECTOR_COUNT>>
             /\ pc' = "L64"
             /\ Local /\ UNCHANGED <<fn, arg, ret, ncalls, mem0, prev, sreg>>
          \/ /\ pc = "L64"
             /\ ret' = 0 /\ pc' = "done"
             /\ Local /\ UNCHANGED <<fn, arg, ncalls, mem0, prev, outvars>>

flash_info ==
    \/ Enter("flash_info", NoArg, Unwritten(4), "L60")
    \/ /\ fn = "flash_info"
       /\ \/ /\ pc = "L60"
             /\ rbuf' = <<M25P16_PAGE_COUNT, M25P16_PAGE_BYTE_SIZE,
                          M25P16_SECTOR_COUNT, M25P16_SECTOR_BYTE_SIZE>>
             /\ pc' = "L64"
             /\ Local /\ UNCHANGED <<fn, arg, ret, ncalls, mem0, prev, sreg>>
          \/ /\ pc = "L64"
             /\ ret' = 0 /\ pc' = "done"
             /\ Local /\ UNCHANGED <<fn, arg, ncalls, mem0, prev, outvars>>

flash_sector_erase ==
    \/ \E sector \in Sectors :
          Enter("flash_sector_erase", [n |-> sector, buf |-> <<>>, siz |-> 0], <<>>, "L79")
    \/ /\ fn = "flash_sector_erase"
       /\ \/ /\ pc = "L79"
             /\ CallDrv("m25p16_write_enable", U32(0), <<>>, 0, 0)
             /\ pc' = "L80"
             /\ UNCHANGED <<fn, arg, ret, ncalls, mem0, prev, outvars>>
          \/ /\ pc = "L80" /\ Returned
             /\ CallDrv("m25p16_sector_erase", SectorAddress(arg.n), <<>>, 0, 0)
             /\ pc' = "L82"
             /\ UNCHANGED <<fn, arg, ret, ncalls, mem0, prev, outvars>>
          \/ /\ pc = "L82" /\ Returned
             /\ CallDrv("m25p16_read_status_register", U32(0), <<>>, 0, 0)
             /\ pc' = "L83"
             /\ UNCHANGED <<fn, arg, ret, ncalls, mem0, prev, outvars>>
          \/ /\ pc = "L83" /\ Returned
             /\ pc' = IF PollAgain(sreg) THEN "L82" ELSE "L84"
             /\ Local /\ UNCHANGED <<fn, arg, ret, ncalls, mem0, prev, outvars>>
          \/ /\ pc = "L84"
             /\ CallDrv("m25p16_write_disable", U32(0), <<>>, 0, 0)
             /\ pc' = "L86"
             /\ UNCHANGED <<fn, arg, ret, ncalls, mem0, prev, outvars>>
          \/ /\ pc = "L86" /\ Returned
             /\ ret' = 0 /\ pc' = "done"
             /\ Local /\ UNCHANGED <<fn, arg, ncalls, mem0, prev, outvars>>

\* Variant: flash_page_write reports a failure when the memory is as it was.
flash_page_write_Verifies ==
    \/ \E w \in WriteCalls :
          Enter("flash_page_write", [n |-> w[1], buf |-> w[2], siz |-> w[3]], <<>>, "L102")
    \/ /\ fn = "flash_page_write"
       /\ \/ /\ pc = "L102"
             /\ IF PageWriteSizeError(arg.siz)
                THEN ret' = -1 /\ pc' = "done"
                ELSE ret' = ret /\ pc' = "L107"
             /\ Local /\ UNCHANGED <<fn, arg, ncalls, mem0, prev, outvars>>
          \/ /\ pc = "L107"
             /\ CallDrv("m25p16_write_enable", U32(0), <<>>, 0, 0)
             /\ pc' = "L108"
             /\ UNCHANGED <<fn, arg, ret, ncalls, mem0, prev, outvars>>
          \/ /\ pc = "L108" /\ Returned
             /\ CallDrv("m25p16_page_program", PageWriteAddress(arg.n), arg.buf, arg.siz, 0)
             /\ pc' = "L110"
             /\ UNCHANGED <<fn, arg, ret, ncalls, mem0, prev, outvars>>
          \/ /\ pc = "L110" /\ Returned
             /\ CallDrv("m25p16_read_status_register", U32(0), <<>>, 0, 0)
             /\ pc' = "L111"
             /\ UNCHANGED <<fn, arg, ret, ncalls, mem0, prev, outvars>>
          \/ /\ pc = "L111" /\ Returned
             /\ pc' = IF PollAgain(sreg) THEN "L110" ELSE "L112"
             /\ Local /\ UNCHANGED <<fn, arg, ret, ncalls, mem0, prev, outvars>>
          \/ /\ pc = "L112"
             /\ CallDrv("m25p16_write_disable", U32(0), <<>>, 0, 0)
             /\ pc' = "L114"
             /\ UNCHANGED <<fn, arg, ret, ncalls, mem0, prev, outvars>>
          \/ /\ pc = "L114" /\ Returned
             /\ ret' = (IF mem = mem0 THEN -1 ELSE 0) /\ pc' = "done"
             /\ Local /\ UNCHANGED <<fn, arg, ncalls, mem0, prev, outvars>>

flash_page_write ==
    \/ \E w \in WriteCalls :
          Enter("flash_page_write", [n |-> w[1], buf |-> w[2], siz |-> w[3]], <<>>, "L102")
    \/ /\ fn = "flash_page_write"
       /\ \/ /\ pc = "L102"
             /\ IF PageWriteSizeError(arg.siz)
                THEN ret' = -1 /\ pc' = "done"
                ELSE ret' = ret /\ pc' = "L107"
             /\ Local /\ UNCHANGED <<fn, arg, ncalls, mem0, prev, outvars>>
          \/ /\ pc = "L107"
             /\ CallDrv("m25p16_write_enable", U32(0), <<>>, 0, 0)
             /\ pc' = "L108"
             /\ UNCHANGED <<fn, arg, ret, ncalls, mem0, prev, outvars>>
          \/ /\ pc = "L108" /\ Returned
             /\ CallDrv("m25p16_page_program", PageWriteAddress(arg.n), arg.buf, arg.siz, 0)
             /\ pc' = "L110"
             /\ UNCHANGED <<fn, arg, ret, ncalls, mem0, prev, outvars>>
          \/ /\ pc = "L110" /\ Returned
             /\ CallDrv("m25p16_read_status_register", U32(0), <<>>, 0, 0)
             /\ pc' = "L111"
             /\ UNCHANGED <<fn, arg, ret, ncalls, mem0, prev, outvars>>
          \/ /\ pc = "L111" /\ Returned
             /\ pc' = IF PollAgain(sreg) THEN "L110" ELSE "L112"
             /\ Local /\ UNCHANGED <<fn, arg, ret, ncalls, mem0, prev, outvars>>
          \/ /\ pc = "L112"
             /\ CallDrv("m25p16_write_disable", U32(0), <<>>, 0, 0)
             /\ pc' = "L114"
             /\ UNCHANGED <<fn, arg, ret, ncalls, mem0, prev, outvars>>
          \/ /\ pc = "L114" /\ Returned
             /\ ret' = 0 /\ pc' = "done"
             /\ Local /\ UNCHANGED <<fn, arg, ncalls, mem0, prev, outvars>>

flash_page_read ==
    \/ \E r \in ReadCalls :
          Enter("flash_page_read", [n |-> r[1], buf |-> <<>>, siz |-> r[2]],
                Unwritten(r[2]), "L129")
    \/ /\ fn = "flash_page_read"
       /\ \/ /\ pc = "L129"
             /\ IF PageReadSizeError(arg.siz)
                THEN ret' = -1 /\ pc' = "done"
                ELSE ret' = ret /\ pc' = "L133"
             /\ Local /\ UNCHANGED <<fn, arg, ncalls, mem0, prev, outvars>>
          \/ /\ pc = "L133"
             /\ CallDrv("m25p16_read_data_bytes", PageReadAddress(arg.n), <<>>, arg.siz, 0)
             /\ pc' = "L135"
             /\ UNCHANGED <<fn, arg, ret, ncalls, mem0, prev, outvars>>
          \/ /\ pc = "L135" /\ Returned
             /\ ret' = 0 /\ pc' = "done"
             /\ Local /\ UNCHANGED <<fn, arg, ncalls, mem0, prev, outvars>>

(* ------------------------------------------------------------------ *)
(* Specification: an application that uses the facade only            *)
(* ------------------------------------------------------------------ *)
\* A public function has been called and has not returned yet.
InCall == pc \notin {"idle", "done"}

InitCommon ==
    /\ fn = "none" /\ arg = NoArg /\ pc = "idle" /\ ret = 0 /\ ncalls = 0
    /\ drv = NoDrv /\ other = NoDrv /\ trip = <<>>
    /\ sreg = 0 /\ rbuf = <<>>
    /\ cs = FALSE /\ frame = <<>> /\ trace = <<>> /\ busErr = FALSE /\ acq = 0
    /\ wel = FALSE /\ wip = FALSE
    /\ \E p \in PowerUpStates : mem = FilledMem(p[1]) /\ nv = p[2]
    /\ pend = NoPend
    /\ dpd = FALSE
    /\ lockreg = [s \in SECTORS |-> 0]
    /\ mem0 = mem
    /\ prev = NoPrev

Init == InitCommon /\ stuck = FALSE /\ xfail = FALSE

Facade ==
    \/ flash_init
    \/ flash_info
    \/ flash_sector_erase
    \/ flash_page_write
    \/ flash_page_read

FacadeDrivers ==
    \/ m25p16_init
    \/ m25p16_write_enable
    \/ m25p16_write_disable
    \/ m25p16_read_status_register
    \/ m25p16_read_data_bytes
    \/ m25p16_page_program
    \/ m25p16_sector_erase

Device == CycleEnd \/ WelReset

Next == Facade \/ FacadeDrivers \/ Device

Spec == Init /\ [][Next]_vars

\* A call in progress runs on: the caller is a single thread that is never
\* suspended for ever.
Step == InCall /\ (Facade \/ FacadeDrivers)

\* The program running against a device whose self-timed cycles end.
SpecLive == Init /\ [][Next]_vars /\ WF_vars(Step) /\ WF_vars(CycleEnd)

\* Hardware fault: the WIP bit, which is 1, reads 1 from now on.
WipSticks ==
    /\ wip /\ ~stuck
    /\ stuck' = TRUE
    /\ UNCHANGED <<wel, wip, nv, mem, pend, dpd, lockreg, xfail>>
    /\ UNCHANGED <<appvars, drv, outvars, busvars>>

NextFault == Next \/ WipSticks

\* The program running against a device whose WIP bit may get stuck at 1.
SpecFault == Init /\ [][NextFault]_vars /\ WF_vars(Step)

(* ------------------------------------------------------------------ *)
(* The chip command drivers called directly, one call at a time       *)
(* ------------------------------------------------------------------ *)
\* <<function, addr, buf, siz, val, out-buffer>>
DriverCalls(x) ==
    { <<x \o "_init", 0, <<>>, 0, 0, <<>> >>,
      <<x \o "_write_enable", 0, <<>>, 0, 0, <<>> >>,
      <<x \o "_write_disable", 0, <<>>, 0, 0, <<>> >>,
      <<x \o "_read_identification", 0, <<>>, 0, 0, Unwritten(20)>>,
      <<x \o "_read_status_register", 0, <<>>, 0, 0, <<>> >>,
      <<x \o "_write_status_register", 0, <<>>, 0, 4, <<>> >>,
      <<x \o "_read_data_bytes", 0, <<>>, 2, 0, Unwritten(2)>>,
      <<x \o "_page_program", 0, BufAB, 2, 0, <<>> >>,
      <<x \o "_sector_erase", 0, <<>>, 0, 0, <<>> >>,
      <<x \o "_bulk_erase", 0, <<>>, 0, 0, <<>> >>,
      <<x \o "_deep_power_down", 0, <<>>, 0, 0, <<>> >>,
      <<x \o "_release_from_deep_power_down", 0, <<>>, 0, 0, <<>> >> }

LockRegisterCalls ==
    { <<"m25px16_write_lock_register", 0, <<>>, 0, 1, <<>> >>,
      <<"m25px16_read_lock_register", 0, <<>>, 0, 0, <<>> >> }

AllDriverCalls == DriverCalls("m25p16") \cup DriverCalls("m25px16") \cup LockRegisterCalls

\* The caller calls one driver function and waits for it to return.
DriverCall ==
    \/ \E c \in AllDriverCalls :
          Enter("driver",
                [n |-> c[2], op |-> c[1], buf |-> c[3], siz |-> c[4], val |-> c[5]],
                c[6], "call")
    \/ /\ fn = "driver" /\ pc = "call"
       /\ CallDrv(arg.op, U32(arg.n), arg.buf, arg.siz, arg.val)
       /\ pc' = "wait"
       /\ UNCHANGED <<fn, arg, ret, ncalls, mem0, prev, outvars>>
    \/ /\ fn = "driver" /\ pc = "wait" /\ Returned
       /\ pc' = "done"
       /\ Local /\ UNCHANGED <<fn, arg, ret, ncalls, mem0, prev, outvars>>

Drivers16 ==
    \/ m25p16_init
    \/ m25p16_write_enable
    \/ m25p16_write_disable
    \/ m25p16_read_identification
    \/ m25p16_read_status_register
    \/ m25p16_write_status_register
    \/ m25p16_read_data_bytes
    \/ m25p16_page_program
    \/ m25p16_sector_erase
    \/ m25p16_bulk_erase
    \/ m25p16_deep_power_down
    \/ m25p16_release_from_deep_power_down

DriversPX16 ==
    \/ m25px16_init
    \/ m25px16_write_enable
    \/ m25px16_write_disable
    \/ m25px16_read_identification
    \/ m25px16_read_status_register
    \/ m25px16_write_status_register
    \/ m25px16_write_lock_register
    \/ m25px16_read_lock_register
    \/ m25px16_read_data_bytes
    \/ m25px16_page_program
    \/ m25px16_sector_erase
    \/ m25px16_bulk_erase
    \/ m25px16_deep_power_down
    \/ m25px16_release_from_deep_power_down

NextDrv == DriverCall \/ Drivers16 \/ DriversPX16 \/ Device

SpecDrv == Init /\ [][NextDrv]_vars

(* ------------------------------------------------------------------ *)
(* An application that uses the facade and the drivers                *)
(* ------------------------------------------------------------------ *)
NextAll == Next \/ NextDrv

SpecAll == Init /\ [][NextAll]_vars

\* The transport fails no later than after this many bytes of an assertion.
MaxLostAt == 5

\* Transport fault: the bus stops carrying bytes while an operation runs.
\* The macros return nothing the callers test, so the callers go on.
TransportFails ==
    /\ InCall /\ ~xfail /\ Len(frame) <= MaxLostAt
    /\ xfail' = TRUE
    /\ UNCHANGED <<wel, wip, nv, mem, pend, dpd, lockreg, stuck>>
    /\ UNCHANGED <<appvars, drv, outvars, busvars>>

NextLine == NextDrv \/ TransportFails

\* The drivers, called directly, on a transport that may fail at any step.
SpecLine == Init /\ [][NextLine]_vars

NextFacadeLine == Next \/ TransportFails

\* The facade on a transport that may fail at any step.
SpecFacadeLine == Init /\ [][NextFacadeLine]_vars

(* ------------------------------------------------------------------ *)
(* An application that erases a sector, writes a page and reads it    *)
(* ------------------------------------------------------------------ *)
\* Data left in a page by earlier use of the part.
BufUsed == <<0, 85>>

\* The application calls f as the next call of the sequence.
TripEnter(f, a, b, l) ==
    /\ pc \in {"idle", "done"}
    /\ trip' = Append(trip, <<f, a.n, a.buf, a.siz>>)
    /\ fn' = f /\ arg' = a /\ pc' = l
    /\ ncalls' = ncalls + 1
    /\ ret' = 0
    /\ mem0' = mem
    /\ prev' = IF fn \in {"flash_sector_erase", "flash_page_write"}
               THEN [fn |-> fn, arg |-> arg, ret |-> ret, mem0 |-> mem0]
               ELSE NoPrev
    /\ drv' = NoDrv
    /\ sreg' = 0
    /\ rbuf' = b
    /\ trace' = <<>>
    /\ acq' = 0
    /\ UNCHANGED <<other, cs, frame, busErr, devvars>>

\* An earlier write (optional), then flash_sector_erase, flash_page_write
\* and flash_page_read, each with any of the arguments.
TripCall ==
    \/ /\ trip = <<>>
       /\ \E p \in Pages :
             TripEnter("flash_page_write", [n |-> p, buf |-> BufUsed, siz |-> 2], <<>>, "L102")
    \/ /\ Len(trip) <= 1
       /\ \E sector \in Sectors :
             TripEnter("flash_sector_erase", [n |-> sector, buf |-> <<>>, siz |-> 0], <<>>, "L79")
    \/ /\ fn = "flash_sector_erase" /\ trip # <<>>
       /\ \E w \in WriteCalls :
             TripEnter("flash_page_write", [n |-> w[1], buf |-> w[2], siz |-> w[3]], <<>>, "L102")
    \/ /\ fn = "flash_page_write" /\ Len(trip) >= 2
       /\ \E r \in ReadCalls :
             TripEnter("flash_page_read", [n |-> r[1], buf |-> <<>>, siz |-> r[2]],
                       Unwritten(r[2]), "L129")

NextTrip == TripCall \/ Step \/ Device

SpecTrip == Init /\ [][NextTrip]_vars

(* ------------------------------------------------------------------ *)
(* The status register read after any driver call                     *)
(* ------------------------------------------------------------------ *)
StatusFunctions == {"m25p16_read_status_register", "m25px16_read_status_register"}

\* After a driver call that was not a status read the caller reads the
\* status register: the device may be in a self-timed cycle, write enabled,
\* or in deep power-down.
StatusProbe ==
    /\ fn = "driver" /\ pc = "done" /\ arg.op \notin StatusFunctions
    /\ \E f \in StatusFunctions :
          arg' = [n |-> 0, op |-> f, buf |-> <<>>, siz |-> 0, val |-> 0]
    /\ pc' = "call"
    /\ ret' = 0
    /\ mem0' = mem
    /\ drv' = NoDrv
    /\ sreg' = 0
    /\ rbuf' = <<>>
    /\ trace' = <<>>
    /\ acq' = 0
    /\ UNCHANGED <<fn, ncalls, prev, other, trip, cs, frame, busErr, devvars>>

NextProbe == StatusProbe \/ NextDrv

SpecProbe == Init /\ [][NextProbe]_vars

(* ------------------------------------------------------------------ *)
(* Two callers running driver functions at once, without a lock       *)
(* ------------------------------------------------------------------ *)
ConcurrentFunctions ==
    {"m25p16_write_enable", "m25p16_write_disable", "m25p16_read_status_register",
     "m25p16_page_program", "m25p16_sector_erase"}

ConcurrentCalls == {c \in DriverCalls("m25p16") : c[1] \in ConcurrentFunctions}

\* The first caller is about to call a driver function.
FirstCaller ==
    /\ ncalls = 0
    /\ \E c \in ConcurrentCalls :
          Enter("driver",
                [n |-> c[2], op |-> c[1], buf |-> c[3], siz |-> c[4], val |-> c[5]],
                c[6], "call")

\* Both callers enter their driver function; the first one runs.
BothCall ==
    /\ fn = "driver" /\ pc = "call"
    /\ \E c \in ConcurrentCalls :
          /\ drv' = DrvFrame(arg.op, U32(arg.n), arg.buf, arg.siz, arg.val)
          /\ other' = DrvFrame(c[1], U32(c[2]), c[3], c[4], c[5])
    /\ pc' = "wait"
    /\ acq' = 0
    /\ UNCHANGED <<fn, arg, ret, ncalls, mem0, prev, trip, outvars, cs, frame, trace, busErr, devvars>>

\* The scheduler runs the other caller: between any two bus primitives.
Switch ==
    /\ fn = "driver" /\ pc = "wait"
    /\ other.pc # 0
    /\ drv' = other /\ other' = drv
    /\ UNCHANGED <<fn, arg, pc, ret, ncalls, mem0, prev, trip, outvars, busvars, devvars>>

\* Both driver functions have returned.
BothReturned ==
    /\ fn = "driver" /\ pc = "wait"
    /\ other # NoDrv /\ drv.pc = 0 /\ other.pc = 0
    /\ pc' = "done"
    /\ UNCHANGED <<fn, arg, ret, ncalls, mem0, prev, drv, other, trip, outvars, busvars, devvars>>

ConcurrentDrivers ==
    \/ m25p16_write_enable
    \/ m25p16_write_disable
    \/ m25p16_read_status_register
    \/ m25p16_page_program
    \/ m25p16_sector_erase

NextTwo == FirstCaller \/ BothCall \/ Switch \/ BothReturned \/ ConcurrentDrivers \/ Device

SpecTwo == Init /\ [][NextTwo]_vars

(* ------------------------------------------------------------------ *)
(* The addressed drivers called with any address and size             *)
(* ------------------------------------------------------------------ *)
\* 000000h, 000100h, 123456h, FFFFFFh.
WireAddrs == {0, 256, 1193046, 16777215}
WireSizes == {0, 1, 3}
BufABC == <<170, 187, 204>>

\* Values written to a lock register: write lock, lock down, both.
LockValues == {1, 2, 3}

\* <<function, addr, buf, siz, val, out-buffer>>
AddressedCalls(x) ==
    {<<x \o "_sector_erase", a, <<>>, 0, 0, <<>> >> : a \in WireAddrs}
    \cup {<<x \o "_page_program", a, BufABC, n, 0, <<>> >> : a \in WireAddrs, n \in WireSizes}
    \cup {<<x \o "_read_data_bytes", a, <<>>, n, 0, Unwritten(n)>> :
             a \in WireAddrs, n \in WireSizes}

LockRegisterAddressedCalls ==
    {<<"m25px16_write_lock_register", a, <<>>, 0, v, <<>> >> : a \in WireAddrs, v \in LockValues}
    \cup {<<"m25px16_read_lock_register", a, <<>>, 0, 0, <<>> >> : a \in WireAddrs}

\* The first call is an addressed driver function.
AddressedCall ==
    /\ ncalls = 0
    /\ \E c \in AddressedCalls("m25p16") \cup AddressedCalls("m25px16")
                \cup LockRegisterAddressedCalls :
          Enter("driver",
                [n |-> c[2], op |-> c[1], buf |-> c[3], siz |-> c[4], val |-> c[5]],
                c[6], "call")

NextWire == AddressedCall \/ NextDrv

SpecWire == Init /\ [][NextWire]_vars

(* ------------------------------------------------------------------ *)
(* The facade called with any index                                   *)
(* ------------------------------------------------------------------ *)
\* Indices past the end of the device; the largest make the 32-bit
\* product exceed 24 bits (256 * 65536, 65536 * 256) or 32 bits.
OutOfRangeSectors == {M25P16_SECTOR_COUNT, 256, 65536}
OutOfRangePages == {M25P16_PAGE_COUNT, 65536, 16777216}

AnySectors == (0..(M25P16_SECTOR_COUNT - 1)) \cup OutOfRangeSectors
AnyPages == {1, 4096} \cup OutOfRangePages

\* The first call after power-up is a facade call with any index.
IndexCall ==
    /\ ncalls = 0
    /\ \/ \E sector \in AnySectors :
             Enter("flash_sector_erase", [n |-> sector, buf |-> <<>>, siz |-> 0], <<>>, "L79")
       \/ \E page \in AnyPages :
             Enter("flash_page_write", [n |-> page, buf |-> BufAB, siz |-> 2], <<>>, "L102")
       \/ \E page \in AnyPages :
             Enter("flash_page_read", [n |-> page, buf |-> <<>>, siz |-> 2],
                   Unwritten(2), "L129")

NextRange == IndexCall \/ Next

SpecRange == Init /\ [][NextRange]_vars

(* ------------------------------------------------------------------ *)
(* Reading the recorded bus traffic                                   *)
(* ------------------------------------------------------------------ *)
\* First byte sent in transaction f (-1: nothing was sent).
OpOf(f) == IF Len(f) = 0 THEN -1 ELSE f[1][1]

IsStatusRead(f) == Len(f) = 2 /\ f[1][1] = 5
IsIdleRead(f) == IsStatusRead(f) /\ f[2][2] % 2 = 0
IsWriteEnable(f) == Len(f) = 1 /\ f[1][1] = 6
IsWriteDisable(f) == Len(f) = 1 /\ f[1][1] = 4

InMutatingCall == fn \in {"flash_sector_erase", "flash_page_write"}
ReturnedOk == pc = "done" /\ ret = 0

\* flash_sector_erase puts 0xD8 on the bus, flash_page_write 0x02.
IsMutatingCommand(f) ==
    OpOf(f) = (IF fn = "flash_sector_erase" THEN 216 ELSE 2)

\* t is a beginning of: write_enable, the mutating command, status reads
\* while they report WIP = 1, one status read that reports WIP = 0,
\* write_disable.
ProtocolPrefix(t) ==
    \A k \in 1..Len(t) :
        IF k = 1 THEN IsWriteEnable(t[k])
        ELSE IF k = 2 THEN IsMutatingCommand(t[k])
        ELSE \/ IsStatusRead(t[k]) /\ (k = 3 \/ IsBusyRead(t[k - 1]))
             \/ IsWriteDisable(t[k]) /\ k > 3 /\ IsIdleRead(t[k - 1]) /\ k = Len(t)

ProtocolComplete(t) == Len(t) >= 4 /\ IsWriteDisable(t[Len(t)])

\* Every byte of sector s reads FFh.
SectorIsErased(m, s) ==
    /\ m.base[s] = 255
    /\ \A a \in DOMAIN m.over : SectorOf(a) = s => m.over[a] = 255


(* ------------------------------------------------------------------ *)
(* Claims                                                             *)
(* ------------------------------------------------------------------ *)

\* C1: the bus transactions of a flash_sector_erase or flash_page_write call
\* that passes the size check are, in this order and with nothing else in
\* between: write_enable (0x06), the mutating command (0xD8 / 0x02), status
\* reads (0x05) repeated until one reports WIP = 0, write_disable (0x04) last.
C1_ProtocolOrder ==
    InMutatingCall =>
        /\ ProtocolPrefix(trace)
        /\ (ReturnedOk => ProtocolComplete(trace))
        /\ (cs /\ frame # <<>> =>
                ProtocolPrefix(Append(trace, frame)) \/ IsStatusRead(Append(frame, <<0, 0>>)))

C1_Witness ==
    /\ fn = "flash_page_write" /\ ReturnedOk
    /\ Len(trace) = 4 + MaxPolls
    /\ IsBusyRead(trace[3])

\* C2: flash_page_write with siz > 256 fails (non-zero result) without using
\* the transport: no assert, no byte sent, WEL, WIP and memory unchanged.
C2_WriteSizeError ==
    /\ [](fn = "flash_page_write" /\ arg.siz > 256 =>
            /\ trace = <<>> /\ frame = <<>> /\ ~cs /\ acq = 0 /\ drv = NoDrv
            /\ mem = mem0
            /\ (pc = "done" => ret # 0))
    /\ [][fn = "flash_page_write" /\ arg.siz > 256 /\ InCall =>
            UNCHANGED <<wel, wip, mem>>]_vars

C2_Witness == fn = "flash_page_write" /\ arg.siz = 257 /\ pc = "done" /\ ret = -1

\* C3: flash_page_read with siz > 256 fails (non-zero result) before any bus
\* activity, and the caller's buffer is not written.
C3_ReadSizeError ==
    fn = "flash_page_read" /\ arg.siz > 256 =>
        /\ trace = <<>> /\ frame = <<>> /\ ~cs /\ acq = 0 /\ drv = NoDrv
        /\ rbuf = Unwritten(arg.siz)
        /\ (pc = "done" => ret # 0)

C3_Witness ==
    fn = "flash_page_read" /\ arg.n = 0 /\ arg.siz = 257 /\ pc = "done" /\ ret = -1

\* A flash_page_read that returned 0 right after a flash_page_write of the
\* same page and the same length that returned 0.
RoundTripCase ==
    /\ fn = "flash_page_read" /\ ReturnedOk
    /\ prev.fn = "flash_page_write" /\ prev.ret = 0
    /\ prev.arg.n = arg.n /\ prev.arg.siz = arg.siz

\* Programming buf at address a of memory m only has to clear bits.
Programmable(m, a, buf) ==
    \A k \in 1..Len(buf) : BitAnd(MemAt(m, a + k - 1), buf[k]) = buf[k]

\* C4 as stated: flash_page_write(p, buf) followed by flash_page_read(p,
\* len(buf)) returns buf, whatever the memory held before the write.
C4_RoundTripAnyContent == RoundTripCase => rbuf = prev.arg.buf

\* C4 (amended): flash_page_write(p, buf) followed by flash_page_read(p,
\* len(buf)) returns buf when, before the write, every target byte had every
\* bit set that buf has set (e.g. the area was erased) and the page does not
\* lie in a sector the block-protect bits protect.
C4_RoundTripProgrammable ==
    /\ RoundTripCase
    /\ Programmable(prev.mem0, arg.n * 256, prev.arg.buf)
    /\ ~SectorProtected(SectorOf(arg.n * 256))
    => rbuf = prev.arg.buf

C4_Witness ==
    /\ RoundTripCase
    /\ arg.n = 8191 /\ arg.siz = 2
    /\ ~SectorProtected(31)
    /\ rbuf = <<170, 187>>
    /\ MemAt(mem, 2097150) = 255 /\ MemAt(mem, 2096896) = 170

\* C5: once flash_sector_erase(s) has returned, every byte of sector s is FFh,
\* provided the block-protect bits do not protect sector s.
C5_EraseSetsFF ==
    fn = "flash_sector_erase" /\ ReturnedOk /\ ~SectorProtected(arg.n) =>
        SectorIsErased(mem, arg.n)

C5_Witness ==
    /\ fn = "flash_sector_erase" /\ ReturnedOk /\ ~SectorProtected(arg.n)
    /\ ~SectorIsErased(mem0, arg.n)
    /\ SectorIsErased(mem, arg.n)

\* C6: in every state in which flash_sector_erase or flash_page_write has
\* returned, the device's write enable latch is 0, also when the device
\* ignored the mutating command and so did not reset the latch itself.
C6_WelClearedOnReturn == InMutatingCall /\ pc = "done" => ~wel

\* The target was protected: the command was ignored, no cycle ran, the status
\* read of the poll still showed WEL = 1, and the latch is 0 at return.
C6_Witness ==
    /\ fn = "flash_sector_erase" /\ ReturnedOk
    /\ SectorProtected(arg.n)
    /\ mem = mem0
    /\ Len(trace) = 4
    /\ BitAnd(trace[3][2][2], 2) = 2
    /\ ~wel

\* C7: when flash_sector_erase or flash_page_write returns after issuing its
\* mutating command, the last status byte it read had WIP = 0, write_disable
\* was sent only after that read, and the device is not in a self-timed cycle.
C7_BlocksUntilComplete ==
    /\ InMutatingCall /\ pc \in {"L84", "L86", "L112", "L114"} =>
            M25P16_SREG_WRITE_IN_PROGRESS(sreg) = 0 /\ ~wip
    /\ InMutatingCall /\ ReturnedOk =>
            /\ M25P16_SREG_WRITE_IN_PROGRESS(sreg) = 0
            /\ ~wip
            /\ Len(trace) >= 4
            /\ IsIdleRead(trace[Len(trace) - 1])
            /\ \A k \in 1..Len(trace) : IsWriteDisable(trace[k]) => k = Len(trace)

C7_Witness ==
    /\ fn = "flash_sector_erase" /\ ReturnedOk
    /\ BusyReads(trace) >= 1
    /\ mem # mem0
    /\ ~wip

\* A mutating facade call that is past (or passes) the size check.
MutatingCallRunning ==
    /\ InMutatingCall /\ InCall
    /\ ~(fn = "flash_page_write" /\ arg.siz > 256)

\* C8: if the device's self-timed cycles end, every flash_sector_erase call
\* and every flash_page_write call that passes the size check eventually
\* issues write_disable and returns 0.
C8_MutatingCallReturns ==
    MutatingCallRunning ~>
        (InMutatingCall /\ ReturnedOk /\ IsWriteDisable(trace[Len(trace)]))

\* A call that had to wait for the cycle has returned.
C8_Witness ==
    /\ fn = "flash_page_write" /\ ReturnedOk
    /\ arg.siz = 256
    /\ BusyReads(trace) = MaxPolls
    /\ IsWriteDisable(trace[Len(trace)])

\* The mutating call has not left its poll loop, and WIP reads 1 from now on.
StuckBeforeLoopExit ==
    /\ stuck /\ InMutatingCall
    /\ pc \in {"L79", "L80", "L82", "L107", "L108", "L110"}

WriteDisableOnBus ==
    \/ OpOf(frame) = 4
    \/ \E k \in 1..Len(trace) : OpOf(trace[k]) = 4

\* C9: the poll has no timeout: when every status read returns WIP = 1, a
\* flash_sector_erase or flash_page_write call never returns, never issues
\* write_disable, and issues read_status_register transactions for ever.
C9_StuckWipHangs ==
    [](StuckBeforeLoopExit =>
          /\ [](pc # "done" /\ ~WriteDisableOnBus)
          /\ []<>(cs /\ Len(frame) = 2 /\ OpOf(frame) = 5 /\ frame[2][2] % 2 = 1))

\* The device has long finished (WIP = 0, WEL = 0 inside), the bit is stuck, and the
\* caller is reading the status register once more.
C9_Witness ==
    /\ stuck /\ InMutatingCall /\ InCall
    /\ ~wip /\ ~wel /\ mem # mem0
    /\ BusyReads(trace) = MaxPolls
    /\ cs /\ Len(frame) = 2 /\ OpOf(frame) = 5 /\ frame[2][2] % 2 = 1

BusFunctions ==
    {c[1] : c \in AllDriverCalls} \ {"m25p16_init", "m25px16_init"}

\* C10: every driver operation of both drivers makes exactly one bus
\* acquisition - one assert, then its transmits, then one deassert: assert is
\* never issued while the bus is asserted, no byte is transmitted and no
\* deassert issued while it is deasserted, and the bus is deasserted whenever
\* an operation has returned.
C10_OneAcquisition ==
    /\ ~busErr
    /\ acq <= 1
    /\ (cs => acq = 1 /\ ~Returned)
    /\ (frame # <<>> => cs)
    /\ (Returned => ~cs)
    /\ (Returned /\ drv.fn \in BusFunctions => acq = 1 /\ Len(trace) = 1)

C10_Witness ==
    /\ fn = "driver" /\ pc = "done"
    /\ drv.fn = "m25px16_read_lock_register" /\ Returned
    /\ prev = NoPrev /\ ncalls = MaxCalls
    /\ acq = 1 /\ ~cs /\ Len(trace) = 1 /\ Len(trace[1]) = 5

\* The bytes sent in transaction f, in order.
Sent(f) == [k \in 1..Len(f) |-> f[k][1]]

\* The bytes received in transaction f, in order.
Received(f) == [k \in 1..Len(f) |-> f[k][2]]

IsPrefix(a, b) == Len(a) <= Len(b) /\ \A k \in 1..Len(a) : a[k] = b[k]

\* a and b agree as far as both go.
StartsAs(a, b) == \A k \in 1..Len(a) : k <= Len(b) => a[k] = b[k]

\* C11: for every sector s below sector_count, flash_sector_erase(s) computes
\* the byte address s * 65536, which fits in 24 bits, and the sector erase
\* transaction is D8h followed by the address bytes s, 00h, 00h.
C11_EraseAddressBytes ==
    fn = "flash_sector_erase" /\ arg.n < 32 =>
        /\ (drv.fn = "m25p16_sector_erase" =>
                /\ drv.addr = [hi |-> arg.n, lo |-> 0]
                /\ drv.addr.hi < 256
                /\ IsPrefix(Sent(frame), <<216, arg.n, 0, 0>>))
        /\ (Len(trace) >= 2 => Sent(trace[2]) = <<216, arg.n, 0, 0>>)

C11_Witness ==
    /\ fn = "flash_sector_erase" /\ arg.n = 31 /\ ReturnedOk
    /\ Sent(trace[2]) = <<216, 31, 0, 0>>
    /\ ncalls = 1

\* The addresses at which memories m and n differ.
Changed(m, n) ==
    {a \in (DOMAIN m.over) \cup (DOMAIN n.over) : MemAt(m, a) # MemAt(n, a)}

SameBase(m, n) == m.base = n.base

\* C12: for every page p below page_count and every siz <= 256,
\* flash_page_write and flash_page_read use address p * 256, whose low 8 bits
\* are zero, so the bytes [addr, addr + siz) lie inside one page and inside
\* the device, and a write changes no byte outside them (no wrap-around).
C12_PageAccessInsidePage ==
    /\ fn \in {"flash_page_write", "flash_page_read"}
    /\ arg.n < 8192 /\ arg.siz <= 256
    /\ drv.fn \in {"m25p16_page_program", "m25p16_read_data_bytes"}
    => LET a == arg.n * 256
       IN  /\ drv.addr = [hi |-> a \div 65536, lo |-> a % 65536]
           /\ drv.addr.lo % 256 = 0
           /\ drv.siz = arg.siz
           /\ a + drv.siz <= ((a \div 256) + 1) * 256
           /\ a + drv.siz <= 8192 * 256
           /\ StartsAs(Sent(frame),
                       <<OpOf(frame), a \div 65536, (a \div 256) % 256, 0>>)
           /\ Len(frame) <= 4 + arg.siz
           /\ Changed(mem, mem0) \subseteq a..(a + arg.siz - 1)
           /\ SameBase(mem, mem0)

C12_Witness ==
    /\ fn = "flash_page_write" /\ arg.n = 4096 /\ ReturnedOk
    /\ Sent(trace[2]) = <<2, 16, 0, 0, 170, 187>>
    /\ Changed(mem, mem0) = {1048576, 1048577}

\* WRITE STATUS REGISTER, PAGE PROGRAM, SECTOR ERASE or BULK ERASE.
IsMutatingFrame(f) == OpOf(f) \in {1, 2, 216, 199}

\* Transaction k of log t is followed by status reads up to one that reports
\* WIP = 0, and then by write_disable.
PolledAndSettled(t, k) ==
    \E j \in (k + 1)..(Len(t) - 1) :
        /\ \A i \in (k + 1)..j : IsStatusRead(t[i])
        /\ IsIdleRead(t[j])
        /\ IsWriteDisable(t[j + 1])

\* C13: every write_status_register, page_program, sector_erase and
\* bulk_erase transaction a public operation puts on the bus comes right
\* after a write_enable transaction of that operation and, once the operation
\* has returned, is followed by status polling until WIP = 0 and write_disable.
C13_EveryMutatingCommandWrapped ==
    /\ \A k \in 1..Len(trace) :
          IsMutatingFrame(trace[k]) => k > 1 /\ IsWriteEnable(trace[k - 1])
    /\ (cs /\ IsMutatingFrame(frame) =>
            Len(trace) >= 1 /\ IsWriteEnable(trace[Len(trace)]))
    /\ (pc = "done" =>
            \A k \in 1..Len(trace) :
                IsMutatingFrame(trace[k]) => PolledAndSettled(trace, k))

\* ---------------------------------------------------------------------
\* Identification
\* ---------------------------------------------------------------------
IdentificationFunctions == {"m25p16_read_identification", "m25px16_read_identification"}

\* Size in bytes of the identification structure.
IdentificationBytes == 4 + CFD_CONTENT_SIZE

\* read_identification has returned.
IdentificationRead == drv.fn \in IdentificationFunctions /\ Returned

\* C14: when read_identification returns with a length byte of at most 16,
\* it made one acquisition whose single assertion carried 0x9F followed by
\* 1+2+1+cfd_length zero bytes, and the bytes received after the opcode are
\* stored, in order, in manufacturer, memory_type, memory_capacity,
\* cfd_length and cfd_content[0..cfd_length-1]; the rest of the structure is
\* untouched.
C14_IdentificationLayout ==
    (IdentificationRead /\ rbuf[4] <= CFD_CONTENT_SIZE) =>
        /\ acq = 1
        /\ Len(trace) = 1
        /\ Len(trace[1]) = 1 + (1 + 2 + 1 + rbuf[4])
        /\ Sent(trace[1]) = [k \in 1..Len(trace[1]) |->
                                IF k = 1 THEN CMD_READ_IDENTIFICATION ELSE 0]
        /\ Len(rbuf) = IdentificationBytes
        /\ \A k \in 1..IdentificationBytes :
              rbuf[k] = IF k <= 4 + rbuf[4] THEN Received(trace[1])[k + 1] ELSE -1

C14_Witness ==
    /\ IdentificationRead
    /\ rbuf[4] = CFD_CONTENT_SIZE
    /\ rbuf[1] = 32 /\ rbuf[3] = 21
    /\ rbuf[5] = CfdByte(0) /\ rbuf[IdentificationBytes] = CfdByte(15)

\* C15: read_identification never stores at an index of cfd_content that is
\* 16 or more, whatever length byte the device returns.
C15_CfdStoreBounded ==
    (drv.fn \in IdentificationFunctions) =>
        /\ Len(rbuf) <= IdentificationBytes
        /\ drv.pc # -1
        /\ drv.i <= CFD_CONTENT_SIZE

\* ---------------------------------------------------------------------
\* Wire format
\* ---------------------------------------------------------------------
\* The opcode each driver function puts first on the bus.
Opcode ==
    [f \in BusFunctions |->
        CASE f \in {"m25p16_write_enable", "m25px16_write_enable"} -> 6
          [] f \in {"m25p16_write_disable", "m25px16_write_disable"} -> 4
          [] f \in IdentificationFunctions -> 159
          [] f \in {"m25p16_read_status_register", "m25px16_read_status_register"} -> 5
          [] f \in {"m25p16_write_status_register", "m25px16_write_status_register"} -> 1
          [] f \in {"m25p16_read_data_bytes", "m25px16_read_data_bytes"} -> 3
          [] f \in {"m25p16_page_program", "m25px16_page_program"} -> 2
          [] f \in {"m25p16_sector_erase", "m25px16_sector_erase"} -> 216
          [] f \in {"m25p16_bulk_erase", "m25px16_bulk_erase"} -> 199
          [] f \in {"m25p16_deep_power_down", "m25px16_deep_power_down"} -> 185
          [] f \in {"m25p16_release_from_deep_power_down",
                    "m25px16_release_from_deep_power_down"} -> 171
          [] f = "m25px16_write_lock_register" -> 229
          [] f = "m25px16_read_lock_register" -> 232]

ReadFunctions == {"m25p16_read_data_bytes", "m25px16_read_data_bytes"}
ProgramFunctions == {"m25p16_page_program", "m25px16_page_program"}
EraseFunctions == {"m25p16_sector_erase", "m25px16_sector_erase"}
AddressedFunctions == ReadFunctions \cup ProgramFunctions \cup EraseFunctions

\* The three address bytes of 24-bit address a, A23..A16 first.
AddressBytes(a) == <<(a \div 65536) % 256, (a \div 256) % 256, a % 256>>

\* What an addressed driver call with arguments (addr, buf, siz) must send.
WireFormat(f, addr, buf, siz) ==
    <<Opcode[f]>> \o AddressBytes(addr) \o
        (IF f \in ProgramFunctions THEN SubSeq(buf, 1, siz)
         ELSE IF f \in ReadFunctions THEN [k \in 1..siz |-> 0]
         ELSE <<>>)

\* C16: read_data_bytes, page_program and sector_erase called with address
\* addr send, after the opcode, (addr>>16)&FFh, (addr>>8)&FFh, addr&FFh in
\* that order; page_program then sends exactly buf[0..siz-1] in order,
\* read_data_bytes sends exactly siz zero bytes and stores the i-th received
\* byte in buf[i], and sector_erase sends nothing more.
C16_AddressedWireFormat ==
    (fn = "driver" /\ drv.fn \in AddressedFunctions) =>
        LET want == WireFormat(drv.fn, arg.n, arg.buf, arg.siz)
        IN  /\ IsPrefix(Sent(frame), want)
            /\ Returned =>
                  /\ Len(trace) = 1
                  /\ Sent(trace[1]) = want
                  /\ Len(rbuf) = IF drv.fn \in ReadFunctions THEN arg.siz ELSE 0
                  /\ \A i \in 1..Len(rbuf) : rbuf[i] = Received(trace[1])[4 + i]

C16_Witness ==
    /\ fn = "driver" /\ Returned
    /\ drv.fn = "m25p16_page_program"
    /\ arg.n = 1193046
    /\ Sent(trace[1]) = <<2, 18, 52, 86, 170, 187, 204>>

SingleByteFunctions ==
    {"m25p16_write_enable", "m25px16_write_enable",
     "m25p16_write_disable", "m25px16_write_disable",
     "m25p16_bulk_erase", "m25px16_bulk_erase",
     "m25p16_deep_power_down", "m25px16_deep_power_down",
     "m25p16_release_from_deep_power_down", "m25px16_release_from_deep_power_down"}

LockRegisterFunctions == {"m25px16_write_lock_register", "m25px16_read_lock_register"}

\* C17: in every driver operation the first byte transmitted after the
\* assert is the operation's opcode (06h, 04h, 9Fh, 05h, 01h, 03h, 02h, D8h,
\* C7h, B9h, ABh), and write_enable, write_disable, bulk_erase,
\* deep_power_down and release_from_deep_power_down transmit that byte only.
C17_OpcodeFirst ==
    (drv.fn \in BusFunctions \ LockRegisterFunctions) =>
        /\ frame # <<>> => frame[1][1] = Opcode[drv.fn]
        /\ drv.fn \in SingleByteFunctions => Len(frame) <= 1
        /\ Returned =>
              /\ Len(trace) = 1
              /\ trace[1][1][1] = Opcode[drv.fn]
              /\ drv.fn \in SingleByteFunctions => Len(trace[1]) = 1

C17_Witness ==
    /\ drv.fn = "m25p16_deep_power_down"
    /\ Returned
    /\ Sent(trace[1]) = <<185>>
    /\ dpd

\* ---------------------------------------------------------------------
\* Page read
\* ---------------------------------------------------------------------
\* flash_page_read called with a size it accepts.
PageReadCase == fn = "flash_page_read" /\ arg.siz <= M25P16_PAGE_BYTE_SIZE

\* The one transaction of flash_page_read(page, buf, siz).
PageReadFrame(page, siz) ==
    <<3>> \o AddressBytes(page * 256) \o [k \in 1..siz |-> 0]

\* C18: flash_page_read with siz <= 256 makes exactly one bus transaction -
\* 03h, the three address bytes of page * 256, siz dummy bytes - with no
\* write_enable, status read or write_disable around it, returns 0 with the
\* bytes received in the caller's buffer unmodified, and leaves the chip's
\* memory, WEL and WIP as they were.
C18_PageReadOneTransaction ==
    /\ [](PageReadCase =>
            /\ Len(trace) <= 1
            /\ IsPrefix(Sent(frame), PageReadFrame(arg.n, arg.siz))
            /\ mem = mem0 /\ ~wel /\ ~wip
            /\ pc = "done" =>
                  /\ ret = 0
                  /\ Len(trace) = 1
                  /\ Sent(trace[1]) = PageReadFrame(arg.n, arg.siz)
                  /\ rbuf = [k \in 1..arg.siz |-> Received(trace[1])[4 + k]])
    /\ [][(PageReadCase /\ fn' = fn) => UNCHANGED <<wel, wip, nv, mem>>]_vars

C18_Witness ==
    /\ PageReadCase /\ pc = "done" /\ ret = 0
    /\ arg.n = 8191 /\ arg.siz = 2
    /\ Sent(trace[1]) = <<3, 31, 255, 0, 0, 0>>
    /\ rbuf = <<15, 15>>

\* ---------------------------------------------------------------------
\* Indices past the end of the device
\* ---------------------------------------------------------------------
\* C19: the facade does not check indices. flash_sector_erase with a sector
\* >= sector_count still runs write_enable, sector erase, status polling and
\* write_disable and returns 0, and the driver gets the address sector *
\* 65536; flash_page_write and flash_page_read with a page >= page_count
\* (and an accepted size) return 0 and hand the driver page * 256. The
\* products are those of unsigned 32-bit arithmetic, and lie beyond the
\* device whenever they do not exceed 32 bits.
C19_NoRangeCheck ==
    /\ (fn = "flash_sector_erase" /\ arg.n >= M25P16_SECTOR_COUNT) =>
          /\ ProtocolPrefix(trace)
          /\ drv.fn = "m25p16_sector_erase" =>
                /\ drv.addr = [hi |-> arg.n % 65536, lo |-> 0]
                /\ arg.n < 65536 => drv.addr.hi * 65536 >= DeviceBytes
          /\ pc = "done" => ret = 0 /\ ProtocolComplete(trace) /\ OpOf(trace[2]) = 216
    /\ (fn \in {"flash_page_write", "flash_page_read"}
          /\ arg.n >= M25P16_PAGE_COUNT /\ arg.siz <= M25P16_PAGE_BYTE_SIZE) =>
          /\ drv.fn \in {"m25p16_page_program", "m25p16_read_data_bytes"} =>
                /\ drv.addr = [hi |-> (arg.n \div 256) % 65536, lo |-> (arg.n % 256) * 256]
                /\ arg.n < 16777216 => drv.addr.hi * 65536 >= DeviceBytes
          /\ pc = "done" =>
                /\ ret = 0
                /\ OpOf(trace[IF fn = "flash_page_read" THEN 1 ELSE 2])
                      = (IF fn = "flash_page_read" THEN 3 ELSE 2)
          /\ fn = "flash_page_write" => ProtocolPrefix(trace)

C19_Witness ==
    /\ fn = "flash_sector_erase" /\ arg.n = M25P16_SECTOR_COUNT
    /\ ReturnedOk /\ ProtocolComplete(trace)
    /\ Sent(trace[2]) = <<216, 32, 0, 0>>
    /\ prev.fn = "none"

\* ---------------------------------------------------------------------
\* Commands the device ignores
\* ---------------------------------------------------------------------
\* The sector a mutating facade call aims at.
TargetSector ==
    IF fn = "flash_sector_erase" THEN arg.n
    ELSE arg.n \div (M25P16_SECTOR_BYTE_SIZE \div M25P16_PAGE_BYTE_SIZE)

\* A mutating call, past the size check, whose target the block protect
\* bits protect.
ProtectedTargetCase ==
    /\ InMutatingCall
    /\ ~(fn = "flash_page_write" /\ arg.siz > M25P16_PAGE_BYTE_SIZE)
    /\ TargetSector >= M25P16_SECTOR_COUNT - ProtectedCount(BP)

\* C20: when the block protect bits protect the target sector or page, the
\* device ignores the mutating command, and flash_sector_erase and
\* flash_page_write do not notice: they issue write_enable, the command, one
\* status read that shows WIP = 0 and write_disable, return 0, and the
\* memory is unchanged.
C20_IgnoredCommandReturnsOk ==
    ProtectedTargetCase =>
        /\ ProtocolPrefix(trace)
        /\ BusyReads(trace) = 0
        /\ ~wip /\ pend = NoPend
        /\ mem = mem0
        /\ pc = "done" =>
              /\ ret = 0
              /\ Len(trace) = 4
              /\ IsWriteEnable(trace[1])
              /\ IsMutatingCommand(trace[2])
              /\ IsIdleRead(trace[3])
              /\ IsWriteDisable(trace[4])

C20_Witness ==
    /\ ProtectedTargetCase
    /\ fn = "flash_page_write" /\ arg.n = 8191 /\ arg.buf = BufAB
    /\ ReturnedOk
    /\ Sent(trace[2]) = <<2, 31, 255, 0, 170, 187>>
    /\ MemAt(mem, 8191 * 256) = 15

\* ---------------------------------------------------------------------
\* Geometry
\* ---------------------------------------------------------------------
\* C21: flash_info puts nothing on the bus, returns 0 and reports
\* page_count = 8192, page_bytes = 256, sector_count = 32, sector_bytes =
\* 65536, the geometry of both chip variants; the values satisfy
\* sector_bytes = page_bytes * (page_count / sector_count) and
\* page_count * page_bytes = sector_count * sector_bytes.
C21_FixedGeometry ==
    fn = "flash_info" =>
        /\ trace = <<>> /\ frame = <<>> /\ ~cs /\ acq = 0 /\ drv = NoDrv
        /\ mem = mem0
        /\ pc = "done" =>
              /\ ret = 0
              /\ rbuf = <<8192, 256, 32, 65536>>
              /\ rbuf = <<M25PX16_PAGE_COUNT, M25PX16_PAGE_BYTE_SIZE,
                          M25PX16_SECTOR_COUNT, M25PX16_SECTOR_BYTE_SIZE>>
              /\ rbuf[4] = rbuf[2] * (rbuf[1] \div rbuf[3])
              /\ rbuf[1] * rbuf[2] = rbuf[3] * rbuf[4]

C21_Witness ==
    /\ fn = "flash_info" /\ pc = "done" /\ ret = 0
    /\ rbuf[1] = 8192 /\ rbuf[4] = 65536
    /\ prev.fn = "flash_page_write" /\ mem # prev.mem0

\* ---------------------------------------------------------------------
\* Lock registers
\* ---------------------------------------------------------------------
\* The functions of the M25P16 driver.
M25P16Functions == {c[1] : c \in DriverCalls("m25p16")}

\* What a lock register call with arguments (addr, value) must send.
LockRegisterFrame(f, addr, value) ==
    <<Opcode[f]>> \o AddressBytes(addr) \o
        <<IF f = "m25px16_write_lock_register" THEN value ELSE 0>>

\* C22: m25px16_write_lock_register(addr, b) sends E5h, the address bytes
\* most significant first, then b; m25px16_read_lock_register(addr) sends
\* E8h, the address bytes and one zero byte, and returns the byte received
\* with it; each makes one bus acquisition. No function of the M25P16 driver
\* starts a transaction with E5h or E8h.
C22_LockRegisterCommands ==
    /\ (fn = "driver" /\ drv.fn \in LockRegisterFunctions) =>
          LET want == LockRegisterFrame(drv.fn, arg.n, arg.val)
          IN  /\ IsPrefix(Sent(frame), want)
              /\ acq <= 1 /\ ~busErr
              /\ Returned =>
                    /\ acq = 1 /\ ~cs
                    /\ Len(trace) = 1
                    /\ Sent(trace[1]) = want
                    /\ drv.fn = "m25px16_read_lock_register" =>
                          sreg = Received(trace[1])[5]
    /\ drv.fn \in M25P16Functions =>
          /\ frame # <<>> => frame[1][1] \notin {229, 232}
          /\ \A k \in 1..Len(trace) : trace[k][1][1] \notin {229, 232}

C22_Witness ==
    /\ fn = "driver" /\ drv.fn = "m25px16_write_lock_register" /\ Returned
    /\ Sent(trace[1]) = <<229, 18, 52, 86, 3>>

\* ---------------------------------------------------------------------
\* Serialisation
\* ---------------------------------------------------------------------
\* C23: in any sequence of facade calls made one after another by one
\* caller, while the device's WIP is 1 the bus is asserted only by
\* read_status_register and the only opcode put on it is 05h: no other
\* transaction starts, or is under way, during a self-timed cycle.
C23_OnlyStatusReadsWhileBusy ==
    /\ [](wip /\ cs =>
            /\ drv.fn = "m25p16_read_status_register"
            /\ frame # <<>> => frame[1][1] = 5)
    /\ [][(wip /\ ~cs /\ cs') => drv.fn = "m25p16_read_status_register"]_vars
    /\ [][(wip /\ frame = <<>> /\ frame' # <<>>) => frame'[1][1] = 5]_vars

C23_Witness ==
    /\ wip /\ cs /\ Len(frame) = 2
    /\ fn = "flash_sector_erase" /\ ncalls = 2
    /\ prev.fn = "flash_page_write" /\ prev.ret = 0
    /\ BusyReads(trace) = 1

\* ---------------------------------------------------------------------
\* Two callers
\* ---------------------------------------------------------------------
\* Driver frame d is between its SPI_ASSERT and its SPI_DEASSERT.
Holding(d) == d.pc >= 2

\* The bytes the driver function of frame d sends in its assertion.
OwnBytes(d) ==
    IF d.fn \in AddressedFunctions
    THEN <<Opcode[d.fn], d.addr.hi % 256, d.addr.lo \div 256, d.addr.lo % 256>>
            \o SubSeq(d.buf, 1, d.siz)
    ELSE IF d.fn = "m25p16_read_status_register" THEN <<5, 0>>
    ELSE <<Opcode[d.fn]>>

\* The assertion under way carries bytes that no single caller sent.
MixedFrame ==
    cs /\ frame # <<>> /\ \A d \in {drv, other} :
        d.fn \in ConcurrentFunctions => ~IsPrefix(Sent(frame), OwnBytes(d))

\* C24: the assert / transmit / deassert bracket is right for one caller
\* only. With two callers and no lock the bus is misused as soon as both
\* are inside their bracket, and only then: the bus is asserted while
\* asserted only when the suspended caller holds it, and one assertion
\* then carries bytes of both commands.
C24_OverlapCorruptsBus ==
    /\ [](fn = "driver" /\ Holding(drv) /\ Holding(other) => busErr)
    /\ [](MixedFrame => busErr)
    /\ [][(~busErr /\ busErr') => (cs /\ cs' /\ Holding(other))]_vars

C24_Witness ==
    /\ busErr /\ cs
    /\ MixedFrame
    /\ Sent(frame) = <<2, 6>>
    /\ {drv.fn, other.fn} = {"m25p16_page_program", "m25p16_write_enable"}

\* ---------------------------------------------------------------------
\* No state across calls
\* ---------------------------------------------------------------------
\* The bytes sent in each transaction of log t, and the status bytes
\* received in its status reads.
SentAll(t) == [k \in 1..Len(t) |-> Sent(t[k])]
StatusBytes(t) ==
    LET reads == SelectSeq(t, IsStatusRead) IN [k \in 1..Len(reads) |-> reads[k][2][2]]

\* What a call of facade function f with arguments a puts on the bus when
\* its status reads return the bytes st, and what it returns.
ExpectedBus(f, a, st) ==
    LET polls == [k \in 1..Len(st) |-> <<5, 0>>]
    IN  IF f \in {"flash_page_write", "flash_page_read"} /\ a.siz > 256 THEN <<>>
        ELSE IF f = "flash_page_read" THEN <<PageReadFrame(a.n, a.siz)>>
        ELSE IF f = "flash_page_write"
        THEN << <<6>>, <<2>> \o AddressBytes(a.n * 256) \o SubSeq(a.buf, 1, a.siz) >>
                \o polls \o << <<4>> >>
        ELSE << <<6>>, <<216>> \o AddressBytes(a.n * 65536) >> \o polls \o << <<4>> >>

ExpectedResult(f, a) ==
    IF f \in {"flash_page_write", "flash_page_read"} /\ a.siz > 256 THEN -1 ELSE 0

\* The poll loop ran as the status bytes st dictate: every byte but the
\* last has WIP = 1, the last has WIP = 0.
PollsFollow(st) ==
    /\ Len(st) >= 1
    /\ \A k \in 1..Len(st) : (BitAnd(st[k], 1) = 0) <=> (k = Len(st))

\* C25: what flash_sector_erase, flash_page_write and flash_page_read put on
\* the bus, and what they return, is a function of the call's arguments and
\* of the status bytes read during the call alone - whatever calls came
\* before and whatever the device held: two calls with equal arguments and
\* equal status bytes send the same bytes.
C25_BusIsFunctionOfCall ==
    fn \in {"flash_sector_erase", "flash_page_write", "flash_page_read"} =>
        LET st == StatusBytes(trace)
            want == ExpectedBus(fn, arg, st)
        IN  /\ IsPrefix(SentAll(trace), want)
            /\ pc = "done" =>
                  /\ SentAll(trace) = want
                  /\ ret = ExpectedResult(fn, arg)
                  /\ InMutatingCall /\ ret = 0 => PollsFollow(st)

C25_Witness ==
    /\ fn = "flash_page_write" /\ pc = "done" /\ ncalls = 2
    /\ arg = [n |-> 0, buf |-> BufAB, siz |-> 2]
    /\ prev.fn = "flash_sector_erase" /\ prev.arg.n = 31
    /\ StatusBytes(trace) = <<3, 0>>

\* ---------------------------------------------------------------------
\* Status register read
\* ---------------------------------------------------------------------
\* C26: read_status_register sends 05h and one zero byte in a single bus
\* acquisition and returns the byte received with the second; it can be
\* issued in any device state, WIP = 1 included, and none of its steps
\* changes WEL, WIP, the block protect bits, the memory, the lock
\* registers, the power mode or the cycle in progress.
C26_StatusReadHasNoEffect ==
    /\ [](drv.fn \in StatusFunctions =>
            /\ IsPrefix(Sent(frame), <<5, 0>>)
            /\ acq <= 1 /\ ~busErr
            /\ Returned =>
                  /\ acq = 1 /\ ~cs
                  /\ Len(trace) = 1
                  /\ Sent(trace[1]) = <<5, 0>>
                  /\ sreg = trace[1][2][2])
    /\ [][(drv.fn \in StatusFunctions /\ <<drv, cs, frame>>' # <<drv, cs, frame>>) =>
            UNCHANGED <<wel, wip, nv, mem, pend, dpd, lockreg>>]_vars

C26_Witness ==
    /\ drv.fn = "m25px16_read_status_register" /\ Returned
    /\ wip /\ wel /\ pend.op = "PP"
    /\ sreg = 3
    /\ mem = mem0

\* ---------------------------------------------------------------------
\* Deep power-down
\* ---------------------------------------------------------------------
\* The bytes a call of driver function f with arguments a sends; idlen is
\* the length byte an identification read has received.
DriverBytes(f, a, idlen) ==
    IF f \in AddressedFunctions THEN WireFormat(f, a.n, a.buf, a.siz)
    ELSE IF f \in LockRegisterFunctions THEN LockRegisterFrame(f, a.n, a.val)
    ELSE IF f \in StatusFunctions THEN <<5, 0>>
    ELSE IF f \in IdentificationFunctions THEN <<159>> \o [k \in 1..(4 + idlen) |-> 0]
    ELSE IF Opcode[f] = 1 THEN <<1, a.val>>
    ELSE <<Opcode[f]>>

\* The length byte stored by the identification read under way (0 before).
LengthRead == IF Len(rbuf) >= 4 /\ rbuf[4] >= 0 THEN rbuf[4] ELSE 0

\* C27: the driver neither tracks nor enforces deep power-down. While the
\* device is powered down every driver function and every facade function
\* sends the byte sequence it always sends; a mutating facade call polls
\* until a status read returns a byte with WIP = 0 and then returns 0; the
\* memory is unchanged and no cycle starts.
C27_PowerDownNotEnforced ==
    /\ [](dpd =>
            /\ ~wip /\ pend = NoPend
            /\ (fn = "driver" /\ drv.fn \in BusFunctions) =>
                  LET want == DriverBytes(drv.fn, arg, LengthRead)
                  IN  /\ IsPrefix(Sent(frame), want)
                      /\ Returned => Len(trace) = 1 /\ Sent(trace[1]) = want
            /\ fn \in {"flash_sector_erase", "flash_page_write", "flash_page_read"} =>
                  LET st == StatusBytes(trace)
                      want == ExpectedBus(fn, arg, st)
                  IN  /\ mem = mem0
                      /\ IsPrefix(SentAll(trace), want)
                      /\ \A k \in 1..(Len(st) - 1) : BitAnd(st[k], 1) = 1
                      /\ pc = "done" =>
                            /\ SentAll(trace) = want
                            /\ ret = ExpectedResult(fn, arg)
                            /\ InMutatingCall /\ ret = 0 => PollsFollow(st)
            /\ fn \in {"flash_init", "flash_info"} =>
                  trace = <<>> /\ (pc = "done" => ret = 0))
    /\ [][dpd => UNCHANGED <<mem, nv, wip, wel, lockreg>>]_vars

C27_Witness ==
    /\ dpd
    /\ fn = "flash_page_write" /\ ReturnedOk /\ arg.siz = 2 /\ arg.n = 0
    /\ StatusBytes(trace) = <<255, 0>>
    /\ MemAt(mem, 0) = 255

\* A byte of assertion f was lost by the transport.
HasLostByte(f) == \E k \in 1..Len(f) : Len(f[k]) = 3

\* C28: when a transmit or receive step fails in the middle of a driver
\* operation, the operation still deasserts the bus before it exits: no
\* driver operation has returned with the bus asserted after a transport
\* failure, and the assertion in which the bytes were lost is the one
\* completed assertion of that operation.
C28_BusReleasedOnFailure ==
    xfail =>
        /\ (fn = "driver" /\ drv.fn \in BusFunctions /\ Returned) =>
              ~cs /\ frame = <<>> /\ acq = 1 /\ Len(trace) = 1
        /\ pc = "done" => ~cs /\ frame = <<>>

\* A page program whose transport failed after the opcode went out has returned.
C28_Witness ==
    /\ xfail /\ fn = "driver" /\ drv.fn = "m25p16_page_program" /\ Returned
    /\ Len(trace) = 1 /\ HasLostByte(trace[1])
    /\ Len(Delivered(trace[1])) \in 1..(Len(trace[1]) - 1)
    /\ ~cs

\* The transport failed during a command of the facade call that has returned.
FailedCall ==
    /\ fn \in {"flash_sector_erase", "flash_page_write", "flash_page_read"}
    /\ pc = "done"
    /\ \E k \in 1..Len(trace) : HasLostByte(trace[k])

\* No byte of a command went out a second time: the call put on the bus the
\* transactions it puts there when nothing fails.
NothingRetried == SentAll(trace) = ExpectedBus(fn, arg, StatusBytes(trace))

\* C29: when the transport fails during a command issued by
\* flash_sector_erase, flash_page_write or flash_page_read, the call reports
\* a failure (a non-zero result) and no byte of the command is transmitted
\* a second time.
C29_FailureReported == FailedCall => ret # 0 /\ NothingRetried

\* flash_sector_erase(p div 256), flash_page_write(p, buf, siz) and
\* flash_page_read(p, siz) were called in this order, siz is at most the page
\* size, and the read has returned.
RoundTripDone ==
    /\ Len(trip) >= 3
    /\ LET n == Len(trip)
           e == trip[n - 2]
           w == trip[n - 1]
           r == trip[n]
       IN  /\ e[1] = "flash_sector_erase"
           /\ w[1] = "flash_page_write"
           /\ r[1] = "flash_page_read"
           /\ w[2] < M25P16_PAGE_COUNT
           /\ e[2] = w[2] \div 256
           /\ r[2] = w[2]
           /\ w[4] <= M25P16_PAGE_BYTE_SIZE /\ Len(w[3]) = w[4]
           /\ r[4] = w[4]
    /\ fn = "flash_page_read" /\ pc = "done"

\* No sector of the device is protected.
Unprotected == \A s \in SECTORS : ~SectorProtected(s)

\* C30: on an unprotected device, flash_sector_erase(p div 256) followed by
\* flash_page_write(p, buf) followed by flash_page_read(p, len(buf)) returns
\* buf, whatever the memory held before the erase.
C30_EraseWriteReadRoundTrip ==
    RoundTripDone /\ Unprotected => ret = 0 /\ rbuf = trip[Len(trip) - 1][3]

\* The round trip on a page that held other data before the erase.
C30_Witness ==
    /\ RoundTripDone /\ Unprotected
    /\ Len(trip) = 4 /\ trip[1][2] = 8191 /\ trip[3] = <<"flash_page_write", 8191, BufAB, 2>>
    /\ rbuf = BufAB

\* ---------------------------------------------------------------------
\* What a call leaves alone
\* ---------------------------------------------------------------------
\* flash_page_write has passed the size check and returned.
PageWriteDone ==
    fn = "flash_page_write" /\ ReturnedOk /\ arg.siz <= M25P16_PAGE_BYTE_SIZE

\* The bytes of the device in [p * 256, p * 256 + siz) for the page p and
\* the size of the current call: none when p is past the last page.
TargetBytes ==
    IF arg.n < M25P16_PAGE_COUNT
    THEN (arg.n * M25P16_PAGE_BYTE_SIZE)..(arg.n * M25P16_PAGE_BYTE_SIZE + arg.siz - 1)
    ELSE {}

\* Every target byte is the AND of its old value and the buffer byte that
\* goes with it, and no other byte has changed.
ProgrammedInPlace ==
    /\ \A a \in TargetBytes :
          MemAt(mem, a) =
              BitAnd(MemAt(mem0, a), arg.buf[a - arg.n * M25P16_PAGE_BYTE_SIZE + 1])
    /\ Changed(mem, mem0) \subseteq TargetBytes
    /\ SameBase(mem, mem0)

\* C31 as stated: flash_page_write(p, buf) with len(buf) = siz <= 256 changes
\* only the bytes in [p * 256, p * 256 + siz), each to the AND of its old
\* value and the buffer byte; every other byte is unchanged.
C31_PageWriteFrame == PageWriteDone => ProgrammedInPlace

\* C31 (amended): for a page p below page_count, flash_page_write(p, buf)
\* with len(buf) = siz <= 256 changes only the bytes in [p * 256, p * 256 +
\* siz), each to the AND of its old value and the buffer byte, when the
\* sector of the page is not protected, and changes no byte when it is;
\* every other byte of the page and of every other page is unchanged.
C31_PageWriteFrameUnprotected ==
    PageWriteDone /\ arg.n < M25P16_PAGE_COUNT =>
        IF SectorProtected(TargetSector)
        THEN Changed(mem, mem0) = {} /\ SameBase(mem, mem0)
        ELSE ProgrammedInPlace

\* Two bytes programmed over 0Fh in the middle of the device; the byte after
\* them keeps its value.
C31_Witness ==
    /\ PageWriteDone /\ arg.n = 4096 /\ arg.buf = BufAB
    /\ ~SectorProtected(TargetSector)
    /\ MemAt(mem0, 1048576) = 15 /\ MemAt(mem0, 1048577) = 15
    /\ MemAt(mem, 1048576) = 10 /\ MemAt(mem, 1048577) = 11
    /\ MemAt(mem, 1048578) = 15

\* flash_sector_erase was called with a sector of the device.
SectorEraseCase == fn = "flash_sector_erase" /\ arg.n < M25P16_SECTOR_COUNT

\* C32: for every sector s below sector_count, flash_sector_erase(s) leaves
\* every byte outside [s * sector_bytes, (s + 1) * sector_bytes) unchanged,
\* at every step of the call and after it, and no step of the call changes
\* the block-protect and SRWD bits of the status register.
C32_SectorEraseFrame ==
    /\ [](SectorEraseCase =>
            /\ \A a \in Changed(mem, mem0) : SectorOf(a) = arg.n
            /\ \A s \in SECTORS \ {arg.n} : mem.base[s] = mem0.base[s])
    /\ [][SectorEraseCase /\ InCall => nv' = nv]_vars

\* Sector 0 of a used part erased: its neighbour and the top sector keep
\* their data, the block-protect bits their value.
C32_Witness ==
    /\ SectorEraseCase /\ ReturnedOk /\ arg.n = 0
    /\ MemAt(mem0, 0) = 15 /\ MemAt(mem, 0) = 255 /\ MemAt(mem, 65535) = 255
    /\ MemAt(mem, 65536) = 15 /\ MemAt(mem, 2097151) = 15
    /\ nv = 4

\* ---------------------------------------------------------------------
\* Addresses that do not fit in 24 bits
\* ---------------------------------------------------------------------
\* The three bytes of (sector * 65536) mod 2^24 and of (page * 256) mod 2^24.
WrappedSectorBytes(sector) == <<sector % 256, 0, 0>>
WrappedPageBytes(page) == <<(page \div 256) % 256, page % 256, 0>>

\* The sector the device decodes from the wrapped sector address (A20..A0).
WrappedSector(sector) == (sector % 256) % M25P16_SECTOR_COUNT

\* C33: the address on the bus is (index * unit) mod 2^24, sent as three
\* bytes: flash_sector_erase(s) sends D8h and the bytes of (s * 65536) mod
\* 2^24, flash_page_write(p, ..) and flash_page_read(p, ..) send 02h / 03h and
\* the bytes of (p * 256) mod 2^24. So sector 256 and page 65536 put the
\* address 00h 00h 00h on the bus, as sector 0 and page 0 do, and an erase
\* with an index past the device erases the sector the wrapped address
\* names, if that sector is not protected.
C33_AddressWraps ==
    /\ fn = "flash_sector_erase" =>
          /\ drv.fn = "m25p16_sector_erase" =>
                IsPrefix(Sent(frame), <<216>> \o WrappedSectorBytes(arg.n))
          /\ Len(trace) >= 2 => Sent(trace[2]) = <<216>> \o WrappedSectorBytes(arg.n)
          /\ arg.n \in {0, 256} /\ Len(trace) >= 2 => Sent(trace[2]) = <<216, 0, 0, 0>>
          /\ ReturnedOk /\ ~SectorProtected(WrappedSector(arg.n)) =>
                SectorIsErased(mem, WrappedSector(arg.n))
    /\ fn = "flash_page_write" /\ arg.siz <= M25P16_PAGE_BYTE_SIZE =>
          /\ drv.fn = "m25p16_page_program" =>
                StartsAs(Sent(frame), <<2>> \o WrappedPageBytes(arg.n))
          /\ Len(trace) >= 2 =>
                IsPrefix(<<2>> \o WrappedPageBytes(arg.n), Sent(trace[2]))
          /\ arg.n \in {0, 65536} /\ Len(trace) >= 2 =>
                IsPrefix(<<2, 0, 0, 0>>, Sent(trace[2]))
    /\ fn = "flash_page_read" /\ arg.siz <= M25P16_PAGE_BYTE_SIZE =>
          /\ drv.fn = "m25p16_read_data_bytes" =>
                StartsAs(Sent(frame), <<3>> \o WrappedPageBytes(arg.n))
          /\ Len(trace) >= 1 =>
                IsPrefix(<<3>> \o WrappedPageBytes(arg.n), Sent(trace[1]))

\* flash_sector_erase(256) has erased sector 0 of a used part.
C33_Witness ==
    /\ fn = "flash_sector_erase" /\ arg.n = 256 /\ ReturnedOk
    /\ Sent(trace[2]) = <<216, 0, 0, 0>>
    /\ MemAt(mem0, 0) = 15 /\ MemAt(mem, 0) = 255

\* ---------------------------------------------------------------------
\* The poll loop
\* ---------------------------------------------------------------------
\* The call is at the test of its do/while loop, the status read done.
AtLoopTest == InMutatingCall /\ pc \in {"L83", "L111"} /\ Returned

\* The call has left its loop.
PastLoop == InMutatingCall /\ (pc \in {"L84", "L86", "L112", "L114"} \/ ReturnedOk)

\* C34: flash_sector_erase and flash_page_write read the status register at
\* least once after the mutating command, also when the device is never
\* busy; the status reads of a call are one more than those that returned
\* WIP = 1, the one with WIP = 0 being the last; the loop test uses the byte
\* read in that iteration and of it bit 0 alone: the loop goes round again
\* exactly if that bit is 1, whatever the other seven bits are.
C34_PollLoopShape ==
    /\ [](\A s \in 0..255 : PollAgain(s) <=> (s % 2 = 1))
    /\ [](PastLoop =>
            LET st == StatusBytes(trace)
            IN  /\ Len(st) >= 1
                /\ Len(st) = 1 + BusyReads(trace)
                /\ PollsFollow(st)
                /\ Len(trace) >= 3 /\ IsStatusRead(trace[3]))
    /\ [][AtLoopTest /\ pc' # pc =>
            /\ ~LogFull(trace, <<(<<5, 0>>), <<0, sreg>> >>) =>
                  LET st == StatusBytes(trace) IN st[Len(st)] = sreg
            /\ pc' = IF sreg % 2 = 1
                     THEN (IF pc = "L83" THEN "L82" ELSE "L110")
                     ELSE (IF pc = "L83" THEN "L84" ELSE "L112")]_vars

\* The device ignored the command and was never busy: one status read, and
\* the loop ended on a byte that has WEL and BP0 set.
C34_Witness ==
    /\ PastLoop /\ ReturnedOk
    /\ StatusBytes(trace) = <<6>>
    /\ BusyReads(trace) = 0

\* ---------------------------------------------------------------------
\* Sizes at the edges
\* ---------------------------------------------------------------------
\* Sizes on both sides of the page size, for the size checks alone.
EdgeSizes == 0..512

\* C35: flash_page_write and flash_page_read accept exactly the sizes 0..256:
\* 256 is accepted (a transaction of 4 + 256 bytes), 257 is rejected with -1
\* and no bus activity. With siz = 0, flash_page_write still sends
\* write_enable, a page program of the opcode 02h and three address bytes,
\* the status reads and write_disable, and returns 0; flash_page_read sends
\* one read transaction of 03h and three address bytes, clocks no data byte,
\* and returns 0.
C35_SizeBoundary ==
    /\ \A siz \in EdgeSizes :
          /\ PageWriteSizeError(siz) <=> siz > 256
          /\ PageReadSizeError(siz) <=> siz > 256
    /\ fn \in {"flash_page_write", "flash_page_read"} /\ pc = "done" =>
          /\ arg.siz <= 256 => ret = 0 /\ trace # <<>>
          /\ arg.siz > 256 => ret = -1 /\ trace = <<>> /\ acq = 0
          /\ fn = "flash_page_write" /\ arg.siz \in {0, 256} =>
                /\ ProtocolComplete(trace) /\ ProtocolPrefix(trace)
                /\ Sent(trace[2]) =
                      <<2>> \o AddressBytes(arg.n * 256) \o SubSeq(arg.buf, 1, arg.siz)
                /\ Len(trace[2]) = 4 + arg.siz
          /\ fn = "flash_page_read" /\ arg.siz \in {0, 256} =>
                /\ Len(trace) = 1
                /\ Len(trace[1]) = 4 + arg.siz
                /\ IsPrefix(<<3>> \o AddressBytes(arg.n * 256), Sent(trace[1]))
                /\ Len(rbuf) = arg.siz
                /\ \A k \in 1..arg.siz : rbuf[k] = trace[1][4 + k][2]

\* An empty write to the last page went through the whole cycle.
C35_Witness ==
    /\ fn = "flash_page_write" /\ arg.siz = 0 /\ arg.n = 8191 /\ ReturnedOk
    /\ SentAll(trace) = << <<6>>, <<2, 31, 255, 0>>, <<5, 0>>, <<4>> >>

\* ---------------------------------------------------------------------
\* Results
\* ---------------------------------------------------------------------
\* C36: the size error is the only failure the facade reports. flash_init,
\* flash_info and flash_sector_erase return 0 whenever they return;
\* flash_page_write and flash_page_read return -1 if siz > 256 and 0 if
\* not - whatever state the device is in (busy, powered down, protected),
\* whatever the status bytes were, and whether or not the device executed
\* the command.
C36_OnlySizeErrorReported ==
    pc = "done" =>
        /\ fn \in {"flash_init", "flash_info", "flash_sector_erase"} => ret = 0
        /\ fn \in {"flash_page_write", "flash_page_read"} =>
              /\ ret \in {0, -1}
              /\ ret = -1 <=> arg.siz > M25P16_PAGE_BYTE_SIZE

\* flash_sector_erase on a device in deep power-down: nothing was erased,
\* the call returned 0.
C36_Witness ==
    /\ fn = "flash_sector_erase" /\ ReturnedOk /\ arg.n = 0
    /\ dpd /\ ~Unprotected
    /\ MemAt(mem, 0) = 15
    /\ StatusBytes(trace) = <<0>>


(* ------------------------------------------------------------------ *)
(* Two callers of the facade sharing the device. The facade keeps no   *)
(* lock and no state of its own (flash_m25p16.c:75-87, 98-115), so a   *)
(* second caller may run between any two driver transactions of the    *)
(* first.                                                              *)
(* ------------------------------------------------------------------ *)

\* The locals of a caller that has not called anything yet.
IdleCaller ==
    [fn |-> "none", arg |-> NoArg, pc |-> "idle", ret |-> 0, mem0 |-> mem,
     sreg |-> 0, rbuf |-> <<>>, trace |-> <<>>, acq |-> 0]

\* The locals of the running caller.
ThisCaller ==
    [fn |-> fn, arg |-> arg, pc |-> pc, ret |-> ret, mem0 |-> mem0,
     sreg |-> sreg, rbuf |-> rbuf, trace |-> trace, acq |-> acq]

OtherCaller == IF other = NoDrv THEN IdleCaller ELSE other

SharedWrites == {<<0, BufAB, 2>>, <<8191, BufAB, 2>>}

\* A caller that has not called yet starts its one mutating facade call.
SharedCall ==
    /\ pc = "idle"
    /\ \/ \E sector \in Sectors :
             Enter("flash_sector_erase", [n |-> sector, buf |-> <<>>, siz |-> 0], <<>>, "L79")
       \/ \E w \in SharedWrites :
             Enter("flash_page_write", [n |-> w[1], buf |-> w[2], siz |-> w[3]], <<>>, "L102")

\* The scheduler runs the other caller: only between driver transactions,
\* never inside one.
Yield ==
    /\ Returned /\ ~cs
    /\ pc # "idle"
    /\ fn' = OtherCaller.fn /\ arg' = OtherCaller.arg /\ pc' = OtherCaller.pc
    /\ ret' = OtherCaller.ret /\ mem0' = OtherCaller.mem0
    /\ sreg' = OtherCaller.sreg /\ rbuf' = OtherCaller.rbuf
    /\ trace' = OtherCaller.trace /\ acq' = OtherCaller.acq
    /\ other' = ThisCaller
    /\ UNCHANGED <<ncalls, prev, drv, trip, cs, frame, busErr, devvars>>

NextShare == SharedCall \/ Yield \/ Step \/ Device

SpecShare == Init /\ [][NextShare]_vars


\* A page_program or sector_erase frame is ending on a device that is busy
\* or has the write enable latch clear.
IssuedInVain == cs /\ ~cs' /\ OpOf(frame) \in {CMD_PAGE_PROGRAM, CMD_SECTOR_ERASE} /\ (wip \/ ~wel)

\* The other caller's call has returned 0 as well.
OtherReturnedOk == other # NoDrv /\ other.pc = "done" /\ other.ret = 0

\* This caller's call sent the whole page write protocol.
WroteWholeProtocol ==
    /\ fn = "flash_page_write" /\ ReturnedOk
    /\ Len(trace) >= 4
    /\ SentAll(SubSeq(trace, 1, 2)) =
           << <<CMD_WRITE_ENABLE>>, <<CMD_PAGE_PROGRAM, 31, 255, 0>> \o arg.buf >>
    /\ Sent(trace[Len(trace)]) = <<CMD_WRITE_DISABLE>>

\* C37: the facade is not reentrant. With every driver transaction atomic on
\* the bus and two callers interleaving mutating facade calls between
\* transactions: a caller runs only while no transaction is open; a
\* page_program or sector_erase that reaches the device while WIP is 1 or WEL
\* is 0 changes nothing in the device; and every call, of either caller,
\* returns 0 all the same. (That such a command is in fact issued, by a call
\* that returns 0, is the witness.)
C37_NonReentrancyHazard ==
    /\ [][other' # other => ~cs /\ ~cs' /\ Returned]_vars
    /\ [][IssuedInVain => UNCHANGED <<mem, nv, pend, wip, lockreg>>]_vars
    /\ [](InMutatingCall /\ pc = "done" => ret = 0)
    /\ [](other # NoDrv /\ other.pc = "done" => other.ret = 0)

\* Both callers wrote on a blank unprotected device that was awake all the
\* time, both sent the whole protocol and got 0, and this caller's page is
\* still blank: its page_program met WIP = 1 or WEL = 0.
C37_Witness ==
    /\ WroteWholeProtocol /\ OtherReturnedOk
    /\ other.fn = "flash_page_write" /\ other.arg.n = 0 /\ arg.n = 8191
    /\ Unprotected /\ ~dpd /\ ~wip
    /\ MemAt(mem, 8191 * M25P16_PAGE_BYTE_SIZE) = 255
    /\ MemAt(mem, 0) = 170


(* ------------------------------------------------------------------ *)
(* The two chip drivers side by side: a call of a function that both   *)
(* drivers have is followed by the same call of the other driver       *)
(* (m25p16.c:54-327, flash_m25p16.c:194-570).                          *)
(* ------------------------------------------------------------------ *)

\* The functions both drivers have, without the driver's prefix.
CommonOps ==
    {"_write_enable", "_write_disable", "_read_identification",
     "_read_status_register", "_write_status_register", "_read_data_bytes",
     "_page_program", "_sector_erase", "_bulk_erase", "_deep_power_down",
     "_release_from_deep_power_down"}

CommonFunctions == {x \o o : x \in {"m25p16", "m25px16"}, o \in CommonOps}

\* The same function of the other driver.
Twin(f) ==
    CHOOSE g \in CommonFunctions :
        \E o \in CommonOps : {f, g} = {"m25p16" \o o, "m25px16" \o o}

\* The caller calls driver function c[1]; seen is what it keeps of the call
\* before.
PairEnter(c, seen) ==
    /\ pc \in {"idle", "done"}
    /\ ncalls < MaxCalls
    /\ fn' = "driver" /\ pc' = "call"
    /\ arg' = [n |-> c[2], op |-> c[1], buf |-> c[3], siz |-> c[4], val |-> c[5]]
    /\ ncalls' = ncalls + 1
    /\ ret' = 0
    /\ mem0' = mem
    /\ prev' = NoPrev
    /\ drv' = NoDrv
    /\ other' = seen
    /\ sreg' = 0
    /\ rbuf' = c[6]
    /\ trace' = <<>>
    /\ acq' = 0
    /\ UNCHANGED <<trip, cs, frame, busErr, devvars>>

\* Any driver call, or the call just finished repeated with the other driver.
PairCall ==
    \/ \E c \in AllDriverCalls : PairEnter(c, NoDrv)
    \/ /\ fn = "driver" /\ pc = "done" /\ other = NoDrv
       /\ arg.op \in CommonFunctions
       /\ \E c \in AllDriverCalls :
             /\ c[1] = Twin(arg.op)
             /\ PairEnter(c, ThisCaller)

PairStep == InCall /\ DriverCall

NextPair == PairCall \/ PairStep \/ Drivers16 \/ DriversPX16 \/ Device

SpecPair == Init /\ [][NextPair]_vars

\* The running call repeats the call before it with the other driver.
TwinCall == fn = "driver" /\ other # NoDrv /\ pc \notin {"idle", "call"}

\* The frames of the running call: the finished ones and the open one.
FramesSoFar == trace \o (IF cs THEN <<frame>> ELSE <<>>)

\* Frame k of the running call matches frame k of the call before under
\* Part (the bytes sent, or the bytes received): equal when the frame is
\* finished, a prefix while it is open.
FrameAgrees(Part(_), k) ==
    IF k <= Len(trace)
    THEN Part(trace[k]) = Part(other.trace[k])
    ELSE IsPrefix(Part(frame), Part(other.trace[k]))

\* What the device has answered so far is what it answered to the call before.
SameResponses ==
    /\ Len(FramesSoFar) <= Len(other.trace)
    /\ Returned => Len(trace) = Len(other.trace)
    /\ \A k \in 1..Len(FramesSoFar) : FrameAgrees(Received, k)

====
